---- MODULE Spec2Model ----
(***************************************************************************)
(* A model of github.com/EllipX/ellipxobj: the fixed-point decimal type    *)
(* Amount (amount.go), the order matching primitives built on it           *)
(* (order.go, trade.go) and the unique time ids (timeid.go).               *)
(*                                                                         *)
(* An Amount is the record [value, exp]: the significand (a *big.Int in    *)
(* the code, an Int here) and the number of fractional digits.  A nil      *)
(* pointer is the record Nil, and a run-time panic of a function that      *)
(* would otherwise return a value is the record Panic.                     *)
(***************************************************************************)
EXTENDS Integers, Sequences, FiniteSets, TLC

VARIABLES
    \* ---- arithmetic: one receiver, two operands, one operation applied
    rcv,        \* the receiver Amount "a" of a.SetExp / a.Mul / a.Div
    argx,       \* operand x
    argy,       \* operand y
    arge,       \* the exponent argument of SetExp
    op,         \* the operation applied to rcv: "new" before any
    pre,        \* the receiver as it was before the operation
    ret,        \* what the operation returned besides the receiver
    \* ---- matching: an incoming order against resting orders
    ordA,       \* the incoming order a
    ordB,       \* the resting order b
    trade,      \* what the last a.Matches(b) returned: Nil, a Trade or Panic
    pc,         \* "idle", "matched" (a trade awaits Deduct) or "panic"
    dedA,       \* Deduct(trade) has been applied to a for the current trade
    dedB,       \* Deduct(trade) has been applied to b for the current trade
    last,       \* what the last Matches / Deduct call was given and returned
    limit0,     \* a.SpendLimit as it was when the order came in
    notional,   \* the exact sum of Amount x Price over a's trades, scaled
    nrest,      \* how many resting orders a has been put against
    tally,      \* the caller's running totals over the trades of a run
    \* ---- time ids: one TimeIdUnique and the ids it has been given
    uniqueTime, \* the TimeIdUnique generator: [Last |-> TimeId]
    tid,        \* the TimeId t as the last Unique(t) left it
    produced,   \* every TimeId left in t so far, oldest first
    given,      \* the TimeId t as it was handed to the last Unique(t)
    \* ---- the heap: Amount objects and the big.Int objects they point to
    heap,       \* [ints: the big.Int objects, amts: the Amount objects]
    roots,      \* the pointers the caller holds (operands, orders, trade)
    heap0,      \* heap and roots as they were before the last call
    hcall,      \* the last call made on the heap and what it returned
    \* ---- goroutines running concurrently against shared state
    gor,        \* per goroutine: where it is in its call, and its locals
    exp10cache, \* the map exp10cache: Nil where a key has no entry
    exp10fcache, \* the map exp10fcache: Nil where a key has no entry
    exp10lock,  \* the RWMutex exp10lock: [readers, writer]
    computed    \* per key: how many times 10^v was stored into the cache

arithVars == <<rcv, argx, argy, arge, op, pre, ret>>
orderVars == <<ordA, ordB, trade, pc, dedA, dedB, last, limit0, notional, nrest,
               tally>>
timeVars == <<uniqueTime, tid, produced, given>>
heapVars == <<heap, roots, heap0, hcall>>
concVars == <<gor, exp10cache, exp10fcache, exp10lock, computed>>
vars == <<rcv, argx, argy, arge, op, pre, ret,
          ordA, ordB, trade, pc, dedA, dedB, last, limit0, notional, nrest,
          tally,
          uniqueTime, tid, produced, given,
          heap, roots, heap0, hcall,
          gor, exp10cache, exp10fcache, exp10lock, computed>>

(***************************************************************************)
(* Bounds of the model.                                                    *)
(***************************************************************************)
MaxVal == 6         \* significands of the arithmetic operands: -MaxVal..MaxVal
MaxExp == 1         \* exponents: 0..MaxExp
MaxQty == 2         \* significands of the orders' Amount, Price, SpendLimit
MaxResting == 2     \* resting orders an incoming order is put against

(***************************************************************************)
(* Values.                                                                 *)
(***************************************************************************)
Nil == [nil |-> TRUE]
Panic == [panic |-> TRUE]

Abs(n) == IF n < 0 THEN -n ELSE n

\* big.Int.Quo: the quotient truncated toward zero (a zero divisor panics
\* in the caller before Quo is used here)
Quo(x, y) ==
    IF (x < 0) = (y < 0) THEN Abs(x) \div Abs(y) ELSE -(Abs(x) \div Abs(y))

\* big.Int.Cmp / big.Int.Sign
IntCmp(x, y) == IF x < y THEN -1 ELSE IF x > y THEN 1 ELSE 0

(***************************************************************************)
(* amount.go                                                               *)
(***************************************************************************)
NewAmount(value, decimals) == [value |-> value, exp |-> decimals]

\* Dup: nil stays nil, otherwise a copy with the same value and exponent
Dup(a) == IF a = Nil THEN Nil ELSE [value |-> a.value, exp |-> a.exp]

\* exp10: 10^v (the cache only memoizes the value)
exp10(v) == 10 ^ v

\* A SetExp that drops the digits instead of rounding them.
SetExpTruncating(a, e) ==
    IF a.exp = e THEN a
    ELSE IF e > a.exp
         THEN [value |-> a.value * exp10(e - a.exp), exp |-> e]
         ELSE [value |-> Quo(a.value, exp10(a.exp - e)), exp |-> e]

SetExp(a, e) ==
    IF a.exp = e THEN a
    ELSE IF e > a.exp
         THEN LET add == e - a.exp
              IN  [value |-> a.value * exp10(add), exp |-> e]
         ELSE LET sub == a.exp - e
                  e10 == exp10(sub)
                  e10half == IF a.value < 0 THEN Quo(e10, 2) * (-1)
                                            ELSE Quo(e10, 2)
              IN  [value |-> Quo(a.value + e10half, exp10(sub)), exp |-> e]

\* A Mul that leaves the product at the operands' exponent x.exp + y.exp.
MulNoRescale(a, x, y) ==
    [value |-> x.value * y.value, exp |-> x.exp + y.exp]

Mul(a, x, y) ==
    LET exp == a.exp
    IN  SetExp([value |-> x.value * y.value, exp |-> x.exp + y.exp], exp)

IsZero(a) == a.value = 0

Sign(a) == IntCmp(a.value, 0)

\* A Cmp that tolerates differing exponents and only fails on a nil b.
CmpTolerant(a, b) == b = Nil

\* Cmp panics when the exponents differ (or b is nil: b.exp is read first)
CmpPanics(a, b) == b = Nil \/ a.exp # b.exp

Cmp(a, b) == IntCmp(a.value, b.value)

\* Div: x is duplicated and rescaled with SetExp (which rounds when it has
\* to drop digits), then the significands are divided with Quo.  A nil x or
\* y is dereferenced and a zero y makes Quo panic.
Div(a, x, y) ==
    IF x = Nil \/ y = Nil THEN Panic
    ELSE LET x2 == SetExp(Dup(x), y.exp + a.exp)
         IN  IF y.value = 0 THEN Panic
             ELSE [value |-> Quo(x2.value, y.value), exp |-> a.exp]

Add(a, x, y) ==
    LET x2 == IF x.exp # a.exp THEN SetExp(Dup(x), a.exp) ELSE x
        y2 == IF y.exp # a.exp THEN SetExp(Dup(y), a.exp) ELSE y
    IN  [value |-> x2.value + y2.value, exp |-> a.exp]

Sub(a, x, y) ==
    LET x2 == IF x.exp # a.exp THEN SetExp(Dup(x), a.exp) ELSE x
        y2 == IF y.exp # a.exp THEN SetExp(Dup(y), a.exp) ELSE y
    IN  [value |-> x2.value - y2.value, exp |-> a.exp]

(***************************************************************************)
(* ordertype.go, pair.go                                                   *)
(***************************************************************************)
TypeInvalid == -1
TypeBid == 1
TypeAsk == 2

Pair(x, y) == <<x, y>>

(***************************************************************************)
(* order.go, trade.go                                                      *)
(*                                                                         *)
(* An Order is the record [OrderId, BrokerId, Unique, Pair, Type, Amount,  *)
(* Price, SpendLimit]; Amount, Price and SpendLimit are Amounts or Nil.    *)
(* A Trade is the record [Pair, Bid, Ask, Type, Amount, Price].            *)
(***************************************************************************)
Meta(o) == [OrderId |-> o.OrderId, BrokerId |-> o.BrokerId, Unique |-> o.Unique]

\* IsValid, as far as the modelled fields go
IsValid(o) ==
    /\ o.OrderId # ""
    /\ o.BrokerId # ""
    /\ o.Type \in {TypeBid, TypeAsk}
    /\ ~(o.Amount = Nil /\ o.SpendLimit = Nil)

\* A TradeAmount that forgets to limit the amount by b.Amount.
TradeAmountUnclamped(a, b) ==
    IF b.Amount = Nil THEN Panic
    ELSE LET amt2 == Div(NewAmount(0, b.Amount.exp), a.SpendLimit, b.Price)
         IN  IF a.Amount = Nil THEN amt2
             ELSE IF a.SpendLimit = Nil THEN a.Amount
             ELSE IF amt2 = Panic \/ CmpPanics(a.Amount, amt2) THEN Panic
             ELSE IF Cmp(a.Amount, amt2) > 0 THEN amt2 ELSE a.Amount

\* TradeAmount returns an Amount, or Panic when a Cmp of differing
\* exponents, a division by zero or a nil dereference aborts it.
TradeAmount(a, b) ==
    IF b.Amount = Nil /\ (a.Amount = Nil \/ a.SpendLimit # Nil) THEN Panic
    ELSE LET amt2 == Div(NewAmount(0, b.Amount.exp), a.SpendLimit, b.Price)
             amt == IF a.Amount = Nil THEN amt2
                    ELSE IF a.SpendLimit # Nil
                         THEN IF amt2 = Panic \/ CmpPanics(a.Amount, amt2)
                              THEN Panic
                              ELSE IF Cmp(a.Amount, amt2) > 0 THEN amt2
                                   ELSE a.Amount
                         ELSE a.Amount
         IN  IF amt = Panic \/ CmpPanics(amt, b.Amount) THEN Panic
             ELSE IF Cmp(amt, b.Amount) > 0 THEN b.Amount ELSE amt

NewTrade(a, b, bid, ask, typ, amt) ==
    [Pair |-> a.Pair, Bid |-> Meta(bid), Ask |-> Meta(ask), Type |-> typ,
     Amount |-> Dup(amt), Price |-> b.Price]

\* A Matches that skips the price check of limit orders.
MatchesAnyPrice(a, b) ==
    IF a.Type = TypeBid /\ b.Type = TypeAsk
    THEN LET amt == TradeAmount(a, b)
         IN  IF amt = Panic THEN Panic
             ELSE IF IsZero(amt) THEN Nil
             ELSE NewTrade(a, b, a, b, TypeBid, amt)
    ELSE IF a.Type = TypeAsk /\ b.Type = TypeBid
    THEN LET amt == TradeAmount(a, b)
         IN  IF amt = Panic THEN Panic
             ELSE IF IsZero(amt) THEN Nil
             ELSE NewTrade(a, b, b, a, TypeAsk, amt)
    ELSE Nil

\* A Matches that executes at the incoming order's own limit price.
MatchesAtOwnPrice(a, b) ==
    LET t == MatchesAnyPrice(a, b)
    IN  IF t = Nil \/ t = Panic THEN t
        ELSE IF a.Price = Nil THEN t
        ELSE IF CmpPanics(a.Price, b.Price) THEN Panic
        ELSE IF a.Type = TypeBid /\ Cmp(a.Price, b.Price) < 0 THEN Nil
        ELSE IF a.Type = TypeAsk /\ Cmp(a.Price, b.Price) > 0 THEN Nil
        ELSE [t EXCEPT !.Price = a.Price]

\* Matches returns a Trade, Nil (no match) or Panic.
Matches(a, b) ==
    CASE a.Type = TypeBid ->
            IF b.Type # TypeAsk THEN Nil
            ELSE IF a.Price # Nil /\ CmpPanics(a.Price, b.Price) THEN Panic
            ELSE IF a.Price # Nil /\ Cmp(a.Price, b.Price) < 0 THEN Nil
            ELSE LET amt == TradeAmount(a, b)
                 IN  IF amt = Panic THEN Panic
                     ELSE IF IsZero(amt) THEN Nil
                     ELSE NewTrade(a, b, a, b, TypeBid, amt)
      [] a.Type = TypeAsk ->
            IF b.Type # TypeBid THEN Nil
            ELSE IF a.Price # Nil /\ CmpPanics(a.Price, b.Price) THEN Panic
            ELSE IF a.Price # Nil /\ Cmp(a.Price, b.Price) > 0 THEN Nil
            ELSE LET amt == TradeAmount(a, b)
                 IN  IF amt = Panic THEN Panic
                     ELSE IF IsZero(amt) THEN Nil
                     ELSE NewTrade(a, b, b, a, TypeAsk, amt)
      [] OTHER -> Nil

IsTrade(t) == t # Nil /\ t # Panic

\* Trade.Spent: Amount x Price at Price's exponent
Spent(t) == Mul(NewAmount(0, t.Price.exp), t.Amount, t.Price)

\* A Deduct that leaves a negative SpendLimit as it is.
DeductNoClamp(o, t) ==
    LET amount == IF o.Amount # Nil THEN Sub(o.Amount, o.Amount, t.Amount)
                  ELSE Nil
        limit == IF o.SpendLimit # Nil
                 THEN Sub(o.SpendLimit, o.SpendLimit, Spent(t)) ELSE Nil
    IN  [order |-> [o EXCEPT !.Amount = amount, !.SpendLimit = limit],
         fullyConsumed |-> (o.Amount # Nil /\ IsZero(amount))]

\* A Deduct that takes the trade off the SpendLimit and leaves the Amount.
DeductKeepingAmount(o, t) ==
    LET limit1 == IF o.SpendLimit # Nil
                  THEN Sub(o.SpendLimit, o.SpendLimit, Spent(t)) ELSE Nil
        negative == o.SpendLimit # Nil /\ Sign(limit1) < 0
        limit == IF negative THEN NewAmount(0, limit1.exp) ELSE limit1
    IN  [order |-> [o EXCEPT !.SpendLimit = limit],
         fullyConsumed |-> negative]

\* Deduct changes the order in place and returns fullyConsumed: the result
\* is the record [order, fullyConsumed].
Deduct(o, t) ==
    LET amount == IF o.Amount # Nil THEN Sub(o.Amount, o.Amount, t.Amount)
                  ELSE Nil
        consumed1 == o.Amount # Nil /\ IsZero(amount)
        limit1 == IF o.SpendLimit # Nil
                  THEN Sub(o.SpendLimit, o.SpendLimit, Spent(t)) ELSE Nil
        negative == o.SpendLimit # Nil /\ Sign(limit1) < 0
        limit == IF negative THEN NewAmount(0, limit1.exp) ELSE limit1
    IN  [order |-> [o EXCEPT !.Amount = amount, !.SpendLimit = limit],
         fullyConsumed |-> (consumed1 \/ negative)]

(***************************************************************************)
(* The inputs.                                                             *)
(***************************************************************************)
Exps == 0..MaxExp

\* operands of the arithmetic: any sign
AmountSet == {NewAmount(v, e) : v \in (-MaxVal)..MaxVal, e \in Exps}

\* quantities, prices and spend limits of orders
QtySet == {NewAmount(v, e) : v \in 0..MaxQty, e \in Exps}
NonzeroQtySet == {q \in QtySet : q.value # 0}
PriceSet == {NewAmount(v, e) : v \in 1..MaxQty, e \in Exps}

NewOrder(id, pair, typ, amount, price, limit) ==
    [OrderId |-> id, BrokerId |-> "test", Unique |-> id, Pair |-> pair,
     Type |-> typ, Amount |-> amount, Price |-> price, SpendLimit |-> limit]

\* incoming orders: any type, market or limit, Amount and/or SpendLimit
IncomingOrders ==
    {NewOrder("a", pair, typ, amount, price, limit) :
        pair \in {Pair("BTC", "USD"), Pair("ETH", "USD")},
        typ \in {TypeBid, TypeAsk, TypeInvalid},
        amount \in QtySet \cup {Nil},
        price \in PriceSet \cup {Nil},
        limit \in QtySet \cup {Nil}}

\* resting orders: a bid or an ask with a Price and an Amount
RestingOrders ==
    {NewOrder("b", Pair("BTC", "USD"), typ, amount, price, Nil) :
        typ \in {TypeBid, TypeAsk},
        amount \in NonzeroQtySet,
        price \in PriceSet}

NoCall == [call |-> "none"]

ArithIdle ==
    /\ rcv = NewAmount(0, 0) /\ argx = NewAmount(0, 0) /\ argy = NewAmount(0, 0)
    /\ arge = 0 /\ op = "new" /\ pre = NewAmount(0, 0) /\ ret = Nil

OrderIdle ==
    /\ ordA = Nil /\ ordB = Nil /\ trade = Nil /\ pc = "idle"
    /\ dedA = FALSE /\ dedB = FALSE /\ last = NoCall
    /\ limit0 = Nil /\ notional = 0 /\ nrest = 0
    /\ tally = Nil

\* the zero value of a TimeId, which is also the generator's Last at start
\* (Index is a uint32 kept as its two 16 bit halves)
ZeroTimeId ==
    [Type |-> "", Unix |-> 0, Nano |-> 0, Index |-> [hi |-> 0, lo |-> 0]]

TimeIdle ==
    /\ uniqueTime = [Last |-> ZeroTimeId] /\ tid = Nil /\ produced = <<>>
    /\ given = Nil

\* a heap without objects
EmptyHeap == [ints |-> <<>>, amts |-> <<>>]

HeapIdle ==
    /\ heap = EmptyHeap /\ roots = Nil /\ heap0 = Nil /\ hcall = NoCall

\* the RWMutex with nobody holding it
Unlocked == [readers |-> 0, writer |-> FALSE]

ConcIdle ==
    /\ gor = <<>> /\ exp10cache = <<>> /\ exp10fcache = <<>>
    /\ exp10lock = Unlocked
    /\ computed = <<>>

(***************************************************************************)
(* MatchSpec: a.TradeAmount(b) and a.Matches(b) applied once to every pair *)
(* of a valid incoming order and a resting order.                          *)
(***************************************************************************)
MatchInit ==
    /\ ArithIdle /\ TimeIdle /\ HeapIdle /\ ConcIdle
    /\ ordA \in {o \in IncomingOrders : ~(o.Amount = Nil /\ o.SpendLimit = Nil)}
    /\ ordB \in RestingOrders
    /\ trade = Nil /\ pc = "new"
    /\ dedA = FALSE /\ dedB = FALSE /\ last = NoCall
    /\ limit0 = Nil /\ notional = 0 /\ nrest = 0
    /\ tally = Nil

CallTradeAmount ==
    /\ pc = "new"
    /\ last' = [call |-> "TradeAmount", ret |-> TradeAmount(ordA, ordB)]
    /\ pc' = "returned"
    /\ UNCHANGED <<ordA, ordB, trade, dedA, dedB, limit0, notional, nrest, tally>>
    /\ UNCHANGED <<arithVars, timeVars, heapVars, concVars>>

CallMatches ==
    /\ pc = "new"
    /\ trade' = Matches(ordA, ordB)
    /\ last' = [call |-> "Matches"]
    /\ pc' = IF trade' = Panic THEN "panic" ELSE "returned"
    /\ UNCHANGED <<ordA, ordB, dedA, dedB, limit0, notional, nrest, tally>>
    /\ UNCHANGED <<arithVars, timeVars, heapVars, concVars>>

MatchNext == CallTradeAmount \/ CallMatches

MatchSpec == MatchInit /\ [][MatchNext]_vars

(***************************************************************************)
(* Claims about Matches and TradeAmount, checked under MatchSpec.          *)
(***************************************************************************)
Matched == last = [call |-> "Matches"]

\* the two orders' Prices have one exponent and their Amounts have one
SharedExps(a, b) ==
    /\ a.Price # Nil => a.Price.exp = b.Price.exp
    /\ a.Amount # Nil => a.Amount.exp = b.Amount.exp

OppositeTypes(a, b) ==
    \/ a.Type = TypeBid /\ b.Type = TypeAsk
    \/ a.Type = TypeAsk /\ b.Type = TypeBid

PriceCompatible(a, b) ==
    \/ a.Price = Nil
    \/ a.Type = TypeBid /\ a.Price.value >= b.Price.value
    \/ a.Type = TypeAsk /\ a.Price.value <= b.Price.value

NonzeroTradeAmount(a, b) ==
    LET amt == TradeAmount(a, b) IN amt # Panic /\ amt.value # 0

\* C1: for orders whose Prices share one exponent and whose Amounts share
\* one exponent, a.Matches(b) returns a trade if and only if the orders have
\* opposite directions, a has no Price or a compatible one, and
\* a.TradeAmount(b) is nonzero; otherwise it returns nil.  So a bid priced
\* strictly below the resting ask never matches, a market bid with a nonzero
\* tradable amount matches a priced ask, and a type that is neither bid nor
\* ask yields nil.
MatchesIffCompatible ==
    (Matched /\ SharedExps(ordA, ordB)) =>
        /\ IsTrade(trade) <=>
              (/\ OppositeTypes(ordA, ordB)
               /\ PriceCompatible(ordA, ordB)
               /\ NonzeroTradeAmount(ordA, ordB))
        /\ ~IsTrade(trade) => trade = Nil
        /\ (/\ ordA.Type = TypeBid /\ ordA.Price # Nil
            /\ ordA.Price.value < ordB.Price.value) => trade = Nil
        /\ (/\ ordA.Type = TypeBid /\ ordB.Type = TypeAsk /\ ordA.Price = Nil
            /\ NonzeroTradeAmount(ordA, ordB)) => IsTrade(trade)
        /\ ordA.Type \notin {TypeBid, TypeAsk} => trade = Nil

\* C1 witness: a limit bid priced strictly above the resting ask has matched
MatchesIffCompatibleWitness ==
    /\ Matched /\ SharedExps(ordA, ordB) /\ IsTrade(trade)
    /\ ordA.Type = TypeBid /\ ordA.Price # Nil
    /\ ordA.Price.value > ordB.Price.value

\* the order of the two that is on the given side
SideMeta(typ) ==
    LET o == IF ordA.Type = typ THEN ordA ELSE ordB
    IN  [OrderId |-> o.OrderId, BrokerId |-> o.BrokerId, Unique |-> o.Unique]

\* C2: a trade returned by a.Matches(b) has b's Price (so a bid never pays
\* more and an ask never receives less than its own limit), a's Type, a's
\* Pair, the Amount a.TradeAmount(b), and in Bid / Ask the order id, broker
\* id and unique id of the bid-side and of the ask-side order.
TradeTakesRestingPrice ==
    (Matched /\ IsTrade(trade)) =>
        /\ trade.Price = ordB.Price
        /\ (ordA.Type = TypeBid /\ ordA.Price # Nil) =>
              (/\ trade.Price.exp = ordA.Price.exp
               /\ trade.Price.value <= ordA.Price.value)
        /\ (ordA.Type = TypeAsk /\ ordA.Price # Nil) =>
              (/\ trade.Price.exp = ordA.Price.exp
               /\ trade.Price.value >= ordA.Price.value)
        /\ trade.Type = ordA.Type
        /\ trade.Pair = ordA.Pair
        /\ trade.Amount = TradeAmount(ordA, ordB)
        /\ trade.Bid = SideMeta(TypeBid)
        /\ trade.Ask = SideMeta(TypeAsk)

\* C2 witness: an incoming limit ask priced strictly below the resting bid,
\* on another pair than the one the resting order names, has matched
TradeTakesRestingPriceWitness ==
    /\ Matched /\ IsTrade(trade)
    /\ ordA.Type = TypeAsk /\ ordA.Price # Nil
    /\ ordA.Price.value < ordB.Price.value
    /\ ordA.Pair # ordB.Pair

\* the bounds that apply to a.TradeAmount(b): b.Amount, a.Amount when set,
\* and a.SpendLimit / b.Price at b.Amount's exponent when a.SpendLimit is set
OwnBounds(a, b) ==
    (IF a.Amount # Nil THEN {a.Amount} ELSE {})
    \cup (IF a.SpendLimit # Nil
          THEN {Div(NewAmount(0, b.Amount.exp), a.SpendLimit, b.Price)}
          ELSE {})

\* C3: a.TradeAmount(b) is the minimum of the applicable bounds: it never
\* exceeds b.Amount, nor a.Amount when set, nor a.SpendLimit / b.Price at
\* b.Amount's exponent when a.SpendLimit is set, and it is exactly b.Amount
\* when the incoming order's own amount is larger than b.Amount.
TradeAmountIsMinimum ==
    (last.call = "TradeAmount" /\ last.ret # Panic) =>
        LET bounds == OwnBounds(ordA, ordB) \cup {ordB.Amount}
        IN  /\ last.ret \in bounds
            /\ \A x \in bounds :
                  x.exp = last.ret.exp /\ last.ret.value <= x.value
            /\ (\A x \in OwnBounds(ordA, ordB) : x.value > ordB.Amount.value)
                  => last.ret = ordB.Amount

\* C3 witness: an order with Amount and SpendLimit, both allowing more than
\* b has left, was limited to b.Amount
TradeAmountIsMinimumWitness ==
    /\ last.call = "TradeAmount" /\ last.ret # Panic
    /\ ordA.Amount # Nil /\ ordA.SpendLimit # Nil
    /\ \A x \in OwnBounds(ordA, ordB) : x.value > ordB.Amount.value
    /\ last.ret = ordB.Amount

\* C4: a.Matches(b) never panics, whatever the exponents of the Amount,
\* Price and SpendLimit of two valid orders: it returns a Trade or nil.
MatchesNeverPanics ==
    (Matched /\ IsValid(ordA) /\ IsValid(ordB)) => trade # Panic

(***************************************************************************)
(* AmountSpec: one of a.SetExp(e), a.Mul(x, y), a.Div(x, y) applied to a   *)
(* receiver a and operands x, y of any sign and exponent.                  *)
(***************************************************************************)
AmountInit ==
    /\ rcv \in AmountSet /\ argx \in AmountSet /\ argy \in AmountSet
    /\ arge = 0 /\ op = "new" /\ pre = rcv /\ ret = Nil
    /\ OrderIdle /\ TimeIdle /\ HeapIdle /\ ConcIdle

CallSetExp(e) ==
    /\ op = "new"
    /\ rcv' = SetExp(rcv, e)
    /\ arge' = e /\ op' = "SetExp" /\ pre' = rcv
    /\ UNCHANGED <<argx, argy, ret>>
    /\ UNCHANGED <<orderVars, timeVars, heapVars, concVars>>

CallMul ==
    /\ op = "new"
    /\ rcv' = Mul(rcv, argx, argy)
    /\ op' = "Mul" /\ pre' = rcv
    /\ UNCHANGED <<argx, argy, arge, ret>>
    /\ UNCHANGED <<orderVars, timeVars, heapVars, concVars>>

CallDiv ==
    /\ op = "new"
    /\ LET r == Div(rcv, argx, argy)
       IN  IF r = Panic
           THEN op' = "panic" /\ rcv' = rcv
           ELSE op' = "Div" /\ rcv' = r
    /\ pre' = rcv
    /\ UNCHANGED <<argx, argy, arge, ret>>
    /\ UNCHANGED <<orderVars, timeVars, heapVars, concVars>>

AmountNext == (\E e \in Exps : CallSetExp(e)) \/ CallMul \/ CallDiv

AmountSpec == AmountInit /\ [][AmountNext]_vars

(***************************************************************************)
(* Claims about SetExp, Mul and Div, checked under AmountSpec.             *)
(***************************************************************************)
\* r is n / d rounded to the nearest integer, ties away from zero (d > 0)
IsRoundedHalfAway(r, n, d) ==
    /\ n >= 0 => (r >= 0 /\ 2 * r * d - d <= 2 * n /\ 2 * n < 2 * r * d + d)
    /\ n < 0 => (r <= 0 /\ 2 * r * d - d < 2 * n /\ 2 * n <= 2 * r * d + d)

\* r is n / d truncated toward zero (d # 0)
IsTruncated(r, n, d) ==
    /\ Abs(r) * Abs(d) <= Abs(n)
    /\ Abs(n) < (Abs(r) + 1) * Abs(d)
    /\ r # 0 => ((r > 0) <=> ((n > 0) = (d > 0)))

\* r at exponent e is the value n / 10^from rounded half away from zero
IsRescaled(r, e, n, from) ==
    IF e < from THEN IsRoundedHalfAway(r, n, 10 ^ (from - e))
    ELSE r = n * 10 ^ (e - from)

MulIsRoundedProduct ==
    op = "Mul" =>
        /\ rcv.exp = pre.exp
        /\ IsRescaled(rcv.value, pre.exp,
                      argx.value * argy.value, argx.exp + argy.exp)

\* C9 witness: a negative product with more digits than the receiver keeps
\* was rounded away from zero
MulIsRoundedProductWitness ==
    /\ op = "Mul" /\ pre.exp < argx.exp + argy.exp
    /\ argx.value * argy.value < 0
    /\ rcv.value * 10 ^ (argx.exp + argy.exp - pre.exp) < argx.value * argy.value

\* C10: a.Div(x, y) with nonzero y leaves a's exponent as it was and sets a
\* to the exact quotient x / y truncated toward zero to a.exp fractional
\* digits, for all exponents of x, y and a.  The exact quotient scaled by
\* 10^a.exp is (x.value * 10^(y.exp + a.exp)) / (y.value * 10^x.exp).
DivTruncatesExactQuotient ==
    (op = "Div" /\ argy.value # 0) =>
        /\ rcv.exp = pre.exp
        /\ IsTruncated(rcv.value,
                       argx.value * 10 ^ (argy.exp + pre.exp),
                       argy.value * 10 ^ argx.exp)

(***************************************************************************)
\* C27: a.Matches(b) returns a trade only when a.Pair = b.Pair, so that the
\* trade's Pair is the pair of both orders; for orders of different pairs it
\* returns nil (calls that panic, see C4, set aside).
MatchesOnlyWithinPair ==
    Matched =>
        /\ IsTrade(trade) =>
              /\ ordA.Pair = ordB.Pair
              /\ trade.Pair = ordA.Pair /\ trade.Pair = ordB.Pair
        /\ (ordA.Pair # ordB.Pair /\ trade # Panic) => trade = Nil

(* Spec: the matching protocol.  An incoming bid a is put against resting  *)
(* asks b, one after the other; whenever a.Matches(b) returns a trade t,   *)
(* a.Deduct(t) and b.Deduct(t) are applied once each, in either order,     *)
(* before the next a.Matches(b).  All Amounts of a run have one exponent   *)
(* and all Prices have one exponent (Matches panics otherwise, see         *)
(* MatchSpec); the SpendLimit's exponent is free.                          *)
(***************************************************************************)
Qty(ea) == {NewAmount(v, ea) : v \in 0..MaxQty}
Prices(ep) == {NewAmount(v, ep) : v \in 1..MaxQty}

Bids(ea, ep) ==
    {NewOrder("a", Pair("BTC", "USD"), TypeBid, amount, price, limit) :
        amount \in Qty(ea) \cup {Nil},
        price \in Prices(ep) \cup {Nil},
        limit \in QtySet \cup {Nil}}

Asks(ea, ep) ==
    {NewOrder("b", Pair("BTC", "USD"), TypeAsk, amount, price, Nil) :
        amount \in Qty(ea) \ {NewAmount(0, ea)},
        price \in Prices(ep)}

\* the exponent every notional is brought to: Amount.exp + Price.exp at most
NotionalExp == 2 * MaxExp

\* the exact product Amount x Price of a trade, as an integer at NotionalExp
ExactNotional(t) ==
    t.Amount.value * t.Price.value
        * 10 ^ (NotionalExp - (t.Amount.exp + t.Price.exp))

Init ==
    /\ ArithIdle /\ TimeIdle /\ HeapIdle /\ ConcIdle
    /\ \E ea \in Exps, ep \in Exps :
          /\ ordA \in {o \in Bids(ea, ep) : IsValid(o)}
          /\ ordB \in Asks(ea, ep)
    /\ trade = Nil /\ pc = "idle"
    /\ dedA = FALSE /\ dedB = FALSE /\ last = NoCall
    /\ limit0 = ordA.SpendLimit /\ notional = 0 /\ nrest = 1
    /\ tally = Nil

\* t := a.Matches(b)
Match ==
    /\ pc = "idle"
    /\ trade' = Matches(ordA, ordB)
    /\ last' = [call |-> "Matches"]
    /\ pc' = IF trade' = Panic THEN "panic"
             ELSE IF trade' = Nil THEN "idle" ELSE "matched"
    /\ notional' = IF IsTrade(trade') THEN notional + ExactNotional(trade')
                   ELSE notional
    /\ dedA' = FALSE /\ dedB' = FALSE
    /\ UNCHANGED <<ordA, ordB, limit0, nrest, tally>>
    /\ UNCHANGED <<arithVars, timeVars, heapVars, concVars>>

\* a.Deduct(t)
DeductA ==
    /\ pc = "matched" /\ ~dedA
    /\ LET r == Deduct(ordA, trade)
       IN  /\ ordA' = r.order
           /\ last' = [call |-> "Deduct", side |-> "a", before |-> ordA,
                       ret |-> r.fullyConsumed]
    /\ dedA' = TRUE
    /\ pc' = IF dedB THEN "idle" ELSE "matched"
    /\ UNCHANGED <<ordB, trade, dedB, limit0, notional, nrest, tally>>
    /\ UNCHANGED <<arithVars, timeVars, heapVars, concVars>>

\* b.Deduct(t)
DeductB ==
    /\ pc = "matched" /\ ~dedB
    /\ LET r == Deduct(ordB, trade)
       IN  /\ ordB' = r.order
           /\ last' = [call |-> "Deduct", side |-> "b", before |-> ordB,
                       ret |-> r.fullyConsumed]
    /\ dedB' = TRUE
    /\ pc' = IF dedA THEN "idle" ELSE "matched"
    /\ UNCHANGED <<ordA, trade, dedA, limit0, notional, nrest, tally>>
    /\ UNCHANGED <<arithVars, timeVars, heapVars, concVars>>

\* the caller turns to the next resting order, of the same precision
NextResting ==
    /\ pc = "idle" /\ nrest < MaxResting
    /\ ordB' \in Asks(ordB.Amount.exp, ordB.Price.exp)
    /\ nrest' = nrest + 1
    /\ trade' = Nil /\ last' = NoCall
    /\ UNCHANGED <<ordA, pc, dedA, dedB, limit0, notional, tally>>
    /\ UNCHANGED <<arithVars, timeVars, heapVars, concVars>>

Next == Match \/ DeductA \/ DeductB \/ NextResting

Spec == Init /\ [][Next]_vars

(***************************************************************************)
(* DeductSpec: o.Deduct(t) applied once to every valid order o and every   *)
(* trade t of a nonzero Amount at a nonzero Price, of any exponents.       *)
(***************************************************************************)
Trades(o) ==
    {LET b == NewOrder("b", o.Pair,
                       IF o.Type = TypeBid THEN TypeAsk ELSE TypeBid,
                       amount, price, Nil)
     IN  NewTrade(o, b, IF o.Type = TypeBid THEN o ELSE b,
                  IF o.Type = TypeBid THEN b ELSE o, o.Type, amount) :
        amount \in NonzeroQtySet, price \in PriceSet}

DeductInit ==
    /\ ArithIdle /\ TimeIdle /\ HeapIdle /\ ConcIdle
    /\ ordA \in {o \in IncomingOrders :
                    IsValid(o) /\ o.Pair = Pair("BTC", "USD")}
    /\ trade \in Trades(ordA)
    /\ ordB = Nil /\ pc = "matched"
    /\ dedA = FALSE /\ dedB = TRUE /\ last = NoCall
    /\ limit0 = ordA.SpendLimit /\ notional = 0 /\ nrest = 0
    /\ tally = Nil

DeductNext == DeductA

DeductSpec == DeductInit /\ [][DeductNext]_vars

(***************************************************************************)
(* Claims about Deduct and the spend limit, checked under DeductSpec (one  *)
(* Deduct of any trade) and Spec (the Deducts of the protocol).            *)
(***************************************************************************)
Deducted == last.call = "Deduct"

\* the order Deduct was last applied to, as Deduct left it
After == IF last.side = "a" THEN ordA ELSE ordB

\* old SpendLimit minus t.Spent() rescaled to the SpendLimit's exponent
LimitLeft ==
    last.before.SpendLimit.value
        - SetExp(Spent(trade), last.before.SpendLimit.exp).value

\* C5: after o.Deduct(t) on an order with a SpendLimit, the SpendLimit is
\* never negative: it is the old SpendLimit minus t.Spent() (rescaled to
\* the SpendLimit's exponent) when that is >= 0, and otherwise exactly zero
\* at the same exponent, with Deduct returning true.
DeductKeepsLimitNonNegative ==
    (Deducted /\ last.before.SpendLimit # Nil) =>
        /\ After.SpendLimit.exp = last.before.SpendLimit.exp
        /\ After.SpendLimit.value >= 0
        /\ LimitLeft >= 0 => After.SpendLimit.value = LimitLeft
        /\ LimitLeft < 0 => (After.SpendLimit.value = 0 /\ last.ret = TRUE)

\* C5 witness: a deduction that would have left a negative SpendLimit
DeductKeepsLimitNonNegativeWitness ==
    /\ Deducted /\ last.before.SpendLimit # Nil
    /\ LimitLeft < 0 /\ After.SpendLimit.value = 0 /\ last.ret = TRUE

\* C6: o.Deduct(t) returns true exactly when it leaves o.Amount at zero or
\* leaves o.SpendLimit at zero (reached exactly or by clamping), and false
\* otherwise.
DeductReturnsConsumed ==
    Deducted =>
        (last.ret <=>
            \/ After.Amount # Nil /\ After.Amount.value = 0
            \/ After.SpendLimit # Nil /\ After.SpendLimit.value = 0)

\* C7: the exact sum of Amount x Price over the trades of an incoming order
\* with a SpendLimit S never exceeds S.
SpendLimitCapsNotional ==
    limit0 # Nil =>
        notional <= limit0.value * 10 ^ (NotionalExp - limit0.exp)

(***************************************************************************)
(* CmpSpec: a.Cmp(b) applied once, to every Amount a and every b that is   *)
(* an Amount or an Amount rescaled to another exponent (so that b can be   *)
(* numerically equal to a at a different exponent).                        *)
(***************************************************************************)
Rescalings == {SetExp(Dup(a), e) : a \in AmountSet, e \in Exps}

CmpInit ==
    /\ rcv \in AmountSet /\ argx \in Rescalings
    /\ argy = NewAmount(0, 0) /\ arge = 0 /\ op = "new" /\ pre = rcv
    /\ ret = Nil
    /\ OrderIdle /\ TimeIdle /\ HeapIdle /\ ConcIdle

\* a.Cmp(b): op records whether the call panicked, ret the integer returned
CallCmp ==
    /\ op = "new"
    /\ IF CmpPanics(rcv, argx)
       THEN op' = "panic" /\ ret' = Panic
       ELSE op' = "Cmp" /\ ret' = Cmp(rcv, argx)
    /\ pre' = rcv
    /\ UNCHANGED <<rcv, argx, argy, arge>>
    /\ UNCHANGED <<orderVars, timeVars, heapVars, concVars>>

CmpNext == CallCmp

CmpSpec == CmpInit /\ [][CmpNext]_vars

\* the two amounts denote the same number: value / 10^exp agree
SameNumber(a, b) == a.value * 10 ^ b.exp = b.value * 10 ^ a.exp

\* C11: a.Cmp(b) panics whenever the exponents differ, numerically equal
\* amounts included, and returns nothing then; with equal exponents it
\* returns -1, 0 or +1 as a's significand is below, equal to or above b's.
CmpPanicsOnExpMismatch ==
    /\ op = "panic" <=> (op # "new" /\ rcv.exp # argx.exp)
    /\ op = "Cmp" =>
        /\ rcv.exp = argx.exp
        /\ ret \in {-1, 0, 1}
        /\ ret = -1 <=> rcv.value < argx.value
        /\ ret = 0 <=> rcv.value = argx.value
        /\ ret = 1 <=> rcv.value > argx.value

\* C11 witness: 1 against 1.0 (same nonzero number, exponents 0 and 1)
\* has panicked
CmpPanicsOnExpMismatchWitness ==
    /\ op = "panic" /\ rcv.exp # argx.exp
    /\ rcv.value # 0 /\ SameNumber(rcv, argx)

(***************************************************************************)
(* Text.  A Go string is the sequence of its characters, each a one        *)
(* character string; the conversions below build and scan such sequences   *)
(* the way the code does.                                                  *)
(***************************************************************************)
DigitChars == <<"0", "1", "2", "3", "4", "5", "6", "7", "8", "9">>

IsDigit(c) == \E d \in 1..Len(DigitChars) : DigitChars[d] = c

DigitValue(c) == (CHOOSE d \in 1..Len(DigitChars) : DigitChars[d] = c) - 1

\* the decimal digits of a natural number, most significant first
RECURSIVE NatText(_)
NatText(n) ==
    IF n < Len(DigitChars) THEN <<DigitChars[n + 1]>>
    ELSE NatText(n \div Len(DigitChars)) \o <<DigitChars[(n % Len(DigitChars)) + 1]>>

\* big.Int.Text(10): a leading "-" for a negative number, then the digits
Text(v) == IF v < 0 THEN <<"-">> \o NatText(-v) ELSE NatText(v)

\* strings.Repeat("0", n)
Repeat0(n) == [i \in 1..n |-> "0"]

\* strings.IndexByte / strings.IndexAny: the position of the first character
\* of s that is in chars, counted from 0, or -1
IndexAny(s, chars) ==
    IF \E i \in 1..Len(s) : s[i] \in chars
    THEN (CHOOSE i \in 1..Len(s) :
              s[i] \in chars /\ \A j \in 1..(i - 1) : s[j] \notin chars) - 1
    ELSE -1

\* String: the significand's text (its "-" included in the length) with a
\* point put exp characters from the right, or "0." and zeros in front when
\* the text has no more than exp characters.  With a negative exponent the
\* slice s[:p] runs past the end of s and the call panics.
String(a) ==
    LET s == Text(a.value)
    IN  IF a.exp = 0 THEN s
        ELSE IF Len(s) > a.exp
        THEN LET p == Len(s) - a.exp
             IN  IF p > Len(s) THEN Panic
                 ELSE SubSeq(s, 1, p) \o <<".">> \o SubSeq(s, p + 1, Len(s))
        ELSE IF Len(s) < a.exp
        THEN <<"0", ".">> \o Repeat0(a.exp - Len(s)) \o s
        ELSE <<"0", ".">> \o s

(***************************************************************************)
(* Floats.  A *big.Float is modelled by the exact rational [num, den] it   *)
(* approximates (den > 0).  The conversions below only look at its decimal *)
(* text and at its integer part after adding one half, and for the values  *)
(* of this model the float's rounding error (far below 10^-15 of the       *)
(* value) changes neither.                                                 *)
(***************************************************************************)
MinDecimals == 5        \* NewAmountFromFloat: "if decimals < 5"

\* Float: value / 10^exp
Float(a) == [num |-> a.value, den |-> 10 ^ a.exp]

\* big.Float.Quo(1, f) for a nonzero f
FloatReciprocal(f) ==
    [num |-> IF f.num < 0 THEN -f.den ELSE f.den, den |-> Abs(f.num)]

\* the number of digits after the point in the decimal text of r / den,
\* 0 when it is an integer: digits are produced by long division until the
\* remainder is 0.  (A quotient that never terminates prints as many digits
\* as the float carries, about 20, more than an Int of this model holds;
\* no input of the model has one.)
RECURSIVE FractionDigits(_, _)
FractionDigits(r, den) ==
    IF r % den = 0 THEN 0 ELSE 1 + FractionDigits((r % den) * 10, den)

\* num * 10^d / den by long division: the integer quotient q and the
\* remainder r, for num >= 0
RECURSIVE ScaledQuotient(_, _, _)
ScaledQuotient(num, den, d) ==
    IF d = 0 THEN [q |-> num \div den, r |-> num % den]
    ELSE LET p == ScaledQuotient(num, den, d - 1)
         IN  [q |-> p.q * 10 + (p.r * 10) \div den, r |-> (p.r * 10) % den]

\* NewAmountFromFloat: with decimals <= 0 the number of decimals is taken
\* from the float's text f.Text('f', -1) (5 when it has no point); fewer
\* than 5 decimals are raised to 5; the significand is f * 10^decimals plus
\* one half (of f's sign), truncated by f.Int.
NewAmountFromFloat(f, decimals) ==
    LET guess == IF decimals <= 0
                 THEN IF FractionDigits(Abs(f.num), f.den) = 0
                      THEN MinDecimals
                      ELSE FractionDigits(Abs(f.num), f.den)
                 ELSE decimals
        d == IF guess < MinDecimals THEN MinDecimals ELSE guess
        p == ScaledQuotient(Abs(f.num), f.den, d)
        rounded == IF 2 * p.r >= f.den THEN p.q + 1 ELSE p.q
    IN  [value |-> IF f.num < 0 THEN -rounded ELSE rounded, exp |-> d]

\* Reciprocal: 1 / a.Float() turned back into an Amount, asking for a.exp
\* decimals.  (1 / 0 is +Inf, whose Int is nil: an Amount without a value.)
Reciprocal(a) ==
    IF a.value = 0
    THEN [value |-> Nil,
          exp |-> IF a.exp < MinDecimals THEN MinDecimals ELSE a.exp]
    ELSE NewAmountFromFloat(FloatReciprocal(Float(a)), a.exp)

\* Neg: -a at the same exponent
Neg(a) == [value |-> -a.value, exp |-> a.exp]

\* NewAmountRaw: the values as they are
NewAmountRaw(v, decimals) == [value |-> v, exp |-> decimals]

(***************************************************************************)
(* Parsing.  A failed parse is the record NotOk; the strings of this model *)
(* are made of digits, "-", "+", "." and "e", so the hexadecimal and       *)
(* binary prefixes of base 0 never occur.                                  *)
(***************************************************************************)
NotOk == [ok |-> FALSE]

\* the value of a sequence of digits in the given base
RECURSIVE DigitsValue(_, _)
DigitsValue(s, base) ==
    IF s = <<>> THEN 0
    ELSE DigitsValue(SubSeq(s, 1, Len(s) - 1), base) * base
             + DigitValue(s[Len(s)])

\* big.Int.SetString(s, base) for base 10 and base 0: an optional sign,
\* then at least one digit.  In base 0 a leading "0" followed by more
\* digits announces an octal number.
SetString(s, base) ==
    LET signed == s # <<>> /\ s[1] \in {"-", "+"}
        digits == IF signed THEN Tail(s) ELSE s
        octal == base = 0 /\ Len(digits) > 1 /\ digits[1] = "0"
        radix == IF octal THEN 8 ELSE 10
    IN  IF digits = <<>> THEN NotOk
        ELSE IF \E i \in 1..Len(digits) :
                    ~IsDigit(digits[i]) \/ DigitValue(digits[i]) >= radix
        THEN NotOk
        ELSE [ok |-> TRUE,
              v |-> IF signed /\ s[1] = "-" THEN -DigitsValue(digits, radix)
                    ELSE DigitsValue(digits, radix)]

\* the part of NewAmountFromString after the "e" suffix has been cut off
\* and turned into extraE (the negated exponent)
FromStringMantissa(s, extraE) ==
    LET pos == IndexAny(s, {"."})
    IN  IF pos = -1
        THEN LET v == SetString(s, 0)
             IN  IF ~v.ok THEN Nil
                 ELSE IF extraE < 0
                      THEN [value |-> v.v * exp10(-extraE), exp |-> 0]
                      ELSE [value |-> v.v, exp |-> extraE]
        ELSE LET e == Len(s) - pos - 1 + extraE
                 v == SetString(SubSeq(s, 1, pos)
                                    \o SubSeq(s, pos + 2, Len(s)), 10)
             IN  IF ~v.ok THEN Nil
                 ELSE IF e < 0
                      THEN [value |-> v.v * exp10(-e), exp |-> 0]
                      ELSE [value |-> v.v, exp |-> e]

\* the exact decimal parse of NewAmountFromString (decimals = 0): Nil
\* stands for the error ErrAmountParseFailed
ParseExact(s) ==
    LET pos == IndexAny(s, {"e", "E"})
    IN  IF pos = -1 THEN FromStringMantissa(s, 0)
        ELSE LET v == SetString(SubSeq(s, pos + 2, Len(s)), 0)
             IN  IF ~v.ok THEN Nil
                 ELSE FromStringMantissa(SubSeq(s, 1, pos), -v.v)

\* NewAmountFromString: the exact parse when decimals = 0; otherwise the
\* string is parsed as a float (1024 bits keep every string of this model
\* exact) and handed to NewAmountFromFloat
NewAmountFromString(s, decimals) ==
    IF decimals = 0 THEN ParseExact(s)
    ELSE IF ParseExact(s) = Nil THEN Nil
    ELSE NewAmountFromFloat(Float(ParseExact(s)), decimals)

(***************************************************************************)
(* JSON.  A JSON document is one of the three values Scan accepts: a       *)
(* string, a numeric literal (kept as its text: the decoder runs with      *)
(* UseNumber) or an object with the members "v" and "e".                   *)
(***************************************************************************)
NoError == "nil"

JSONString(s) == [kind |-> "string", s |-> s]
JSONNumber(s) == [kind |-> "number", s |-> s]
JSONObject(v, e) == [kind |-> "object", v |-> v, e |-> e]

AllDigits(s) == s # <<>> /\ \A i \in 1..Len(s) : IsDigit(s[i])

\* the grammar of a JSON numeric literal, which the decoder enforces:
\* -? (0 | [1-9][0-9]*) (. [0-9]+)? ([eE] [+-]? [0-9]+)?
IsJSONNumber(s) ==
    LET body == IF s # <<>> /\ s[1] = "-" THEN Tail(s) ELSE s
        epos == IndexAny(body, {"e", "E"})
        mant == IF epos = -1 THEN body ELSE SubSeq(body, 1, epos)
        expo == IF epos = -1 THEN <<>> ELSE SubSeq(body, epos + 2, Len(body))
        dpos == IndexAny(mant, {"."})
        int == IF dpos = -1 THEN mant ELSE SubSeq(mant, 1, dpos)
        frac == IF dpos = -1 THEN <<>> ELSE SubSeq(mant, dpos + 2, Len(mant))
    IN  /\ AllDigits(int) /\ (Len(int) = 1 \/ int[1] # "0")
        /\ dpos # -1 => AllDigits(frac)
        /\ epos # -1 =>
              AllDigits(IF expo # <<>> /\ expo[1] \in {"-", "+"}
                        THEN Tail(expo) ELSE expo)

\* MarshalJSON: {"v": the significand in base 10, "e": the exponent, "f": a
\* float64 preview that Scan ignores when "v" and "e" are there}
MarshalJSON(a) == JSONObject(Text(a.value), a.exp)

\* Scan returns the receiver as the call leaves it and the error
Scan(a, v) ==
    IF v.kind \in {"string", "number"}
    THEN LET na == NewAmountFromString(v.s, 0)
         IN  IF na = Nil
             THEN [a |-> a, err |-> "failed to parse provided amount"]
             ELSE [a |-> na, err |-> NoError]
    ELSE LET realV == SetString(v.v, 0)
         IN  IF ~realV.ok THEN [a |-> a, err |-> "failed to parse v"]
             ELSE [a |-> [value |-> realV.v, exp |-> v.e], err |-> NoError]

\* UnmarshalJSON: decode the document, then Scan it
UnmarshalJSON(a, b) ==
    IF b.kind = "number" /\ ~IsJSONNumber(b.s)
    THEN [a |-> a, err |-> "invalid character in numeric literal"]
    ELSE Scan(a, b)

(***************************************************************************)
(* Binary form.  A byte is a number in 0..255.                             *)
(***************************************************************************)
MaxVarintLen64 == 10    \* encoding/binary: a 64 bit varint has <= 10 bytes

\* binary.AppendUvarint: 7 bits a byte, least significant first, the top
\* bit set on every byte but the last
RECURSIVE AppendUvarint(_)
AppendUvarint(ux) ==
    IF ux < 128 THEN <<ux>>
    ELSE <<(ux % 128) + 128>> \o AppendUvarint(ux \div 128)

\* An AppendVarint that writes the exponent without the zig-zag step.
AppendVarintPlain(x) == AppendUvarint(Abs(x))

\* binary.AppendVarint: zig-zag (x >= 0 becomes 2x, x < 0 becomes -2x - 1),
\* then AppendUvarint
AppendVarint(x) == AppendUvarint(IF x >= 0 THEN 2 * x ELSE -2 * x - 1)

\* big.Int.Bytes: the magnitude, most significant byte first, no byte at
\* all for zero
RECURSIVE BigBytes(_)
BigBytes(n) ==
    IF n = 0 THEN <<>> ELSE BigBytes(n \div 256) \o <<n % 256>>

\* big.Int.SetBytes: the bytes read as a big-endian unsigned number
RECURSIVE SetBytes(_)
SetBytes(buf) ==
    IF buf = <<>> THEN 0
    ELSE SetBytes(SubSeq(buf, 1, Len(buf) - 1)) * 256 + buf[Len(buf)]

\* Bytes: 0x00, the exponent as a varint, the significand's magnitude
Bytes(a) == <<0>> \o AppendVarint(a.exp) \o BigBytes(Abs(a.value))

\* binary.Uvarint from byte i (counted from 0) on, x and the shift s being
\* what the bytes before have given: n is the number of bytes read, 0 when
\* the buffer ends inside the number, negative on a 64 bit overflow
RECURSIVE UvarintFrom(_, _, _, _)
UvarintFrom(buf, i, x, s) ==
    IF i >= Len(buf) THEN [x |-> 0, n |-> 0]
    ELSE IF i = MaxVarintLen64 THEN [x |-> 0, n |-> -(i + 1)]
    ELSE LET b == buf[i + 1]
         IN  IF b < 128
             THEN IF i = MaxVarintLen64 - 1 /\ b > 1
                  THEN [x |-> 0, n |-> -(i + 1)]
                  ELSE [x |-> IF b = 0 THEN x ELSE x + b * 2 ^ s,
                        n |-> i + 1]
             ELSE UvarintFrom(buf, i + 1,
                              IF b = 128 THEN x ELSE x + (b % 128) * 2 ^ s,
                              s + 7)

\* binary.Varint: Uvarint, then the zig-zag undone
Varint(buf) ==
    LET u == UvarintFrom(buf, 0, 0, 0)
    IN  [x |-> IF u.x % 2 = 1 THEN -(u.x \div 2) - 1 ELSE u.x \div 2,
         n |-> u.n]

\* An UnmarshalBinary that resets the receiver to zero before it looks at
\* the data.
UnmarshalBinaryZeroing(a, data) ==
    IF Len(data) < 2 \/ data[1] # 0 \/ Varint(Tail(data)).n <= 0
    THEN [a |-> NewAmount(0, 0), err |-> "invalid amount encoding"]
    ELSE [a |-> [value |-> SetBytes(SubSeq(data, Varint(Tail(data)).n + 2,
                                           Len(data))),
                 exp |-> Varint(Tail(data)).x],
          err |-> NoError]

\* UnmarshalBinary returns the receiver as the call leaves it and the error
UnmarshalBinary(a, data) ==
    IF Len(data) < 2 THEN [a |-> a, err |-> "data too short"]
    ELSE IF data[1] # 0 THEN [a |-> a, err |-> "invalid version"]
    ELSE LET v == Varint(Tail(data))
         IN  IF v.n <= 0 THEN [a |-> a, err |-> "invalid amount encoding"]
             ELSE [a |-> [value |-> SetBytes(SubSeq(data, v.n + 2, Len(data))),
                          exp |-> v.x],
                   err |-> NoError]

(***************************************************************************)
(* CodecSpec: one conversion applied once.  argx is the Amount a that is   *)
(* rendered or encoded, rcv the Amount that UnmarshalBinary and            *)
(* UnmarshalJSON decode into, arge the data handed to the decoder.         *)
(***************************************************************************)
TwoByteVal == 300       \* a significand whose magnitude takes two bytes
TwoByteExp == 64        \* an exponent whose varint takes two bytes

CodecAmounts ==
    {NewAmount(v, e) : v \in (-MaxVal..MaxVal) \cup {TwoByteVal},
                       e \in (0..(MaxExp + 1)) \cup {TwoByteExp}}

Receivers == {NewAmount(v, e) : v \in {0, MaxVal}, e \in Exps}

\* buffers UnmarshalBinary must refuse: too short, a version other than 0,
\* a varint cut off by the end of the buffer, a varint of more than 64 bits
MalformedBuffers ==
    {<<>>, <<0>>, <<1, 2, 1>>, <<0, 128>>, <<0, 129, 128>>,
     <<0>> \o [i \in 1..MaxVarintLen64 |-> 128] \o <<1>>,
     <<0>> \o [i \in 1..(MaxVarintLen64 - 1) |-> 128] \o <<2>>}

\* the three JSON forms of an Amount
JSONForms(a) ==
    {MarshalJSON(a), JSONString(String(a)), JSONNumber(String(a))}

CodecInit ==
    /\ argx \in CodecAmounts /\ rcv \in Receivers
    /\ argy = NewAmount(0, 0) /\ arge = <<>> /\ op = "new" /\ pre = rcv
    /\ ret = Nil
    /\ OrderIdle /\ TimeIdle /\ HeapIdle /\ ConcIdle

CallString ==
    /\ op = "new"
    /\ ret' = String(argx)
    /\ op' = "String" /\ pre' = rcv
    /\ UNCHANGED <<rcv, argx, argy, arge>>
    /\ UNCHANGED <<orderVars, timeVars, heapVars, concVars>>

CallUnmarshalBinary(data) ==
    /\ op = "new"
    /\ LET r == UnmarshalBinary(rcv, data)
       IN  rcv' = r.a /\ ret' = r.err
    /\ arge' = data /\ op' = "UnmarshalBinary" /\ pre' = rcv
    /\ UNCHANGED <<argx, argy>>
    /\ UNCHANGED <<orderVars, timeVars, heapVars, concVars>>

CallUnmarshalJSON(b) ==
    /\ op = "new"
    /\ LET r == UnmarshalJSON(rcv, b)
       IN  rcv' = r.a /\ ret' = r.err
    /\ arge' = b /\ op' = "UnmarshalJSON" /\ pre' = rcv
    /\ UNCHANGED <<argx, argy>>
    /\ UNCHANGED <<orderVars, timeVars, heapVars, concVars>>

CodecNext ==
    \/ CallString
    \/ \E data \in {Bytes(argx)} \cup MalformedBuffers :
           CallUnmarshalBinary(data)
    \/ \E b \in JSONForms(argx) : CallUnmarshalJSON(b)

CodecSpec == CodecInit /\ [][CodecNext]_vars

\* the decimal rendering of value / 10^exp: the digits of |value|, zeros
\* put in front until there are more than exp of them, a point before the
\* last exp digits (none when exp = 0), and "-" in front when value < 0
Decimal(a) ==
    LET d == NatText(Abs(a.value))
        digits == IF Len(d) <= a.exp
                  THEN Repeat0(a.exp + 1 - Len(d)) \o d ELSE d
        n == Len(digits) - a.exp
        sign == IF a.value < 0 THEN <<"-">> ELSE <<>>
    IN  IF a.exp = 0 THEN sign \o digits
        ELSE sign \o SubSeq(digits, 1, n) \o <<".">>
                  \o SubSeq(digits, n + 1, Len(digits))

\* C12: for every Amount with exp >= 0 and a significand of any sign,
\* String() is the decimal rendering of value / 10^exp with exactly exp
\* fractional digits, at least one integer digit, the sign in front, and no
\* point when exp = 0.
StringIsDecimalRendering ==
    op = "String" => ret = Decimal(argx)

\* C13: for every Amount a with significand >= 0 and exponent >= 0 (zero,
\* two-byte magnitudes and two-byte varints included) UnmarshalBinary of
\* a.Bytes() succeeds and yields a's significand and exponent, hence a's
\* String(); the bytes are 0x00, the exponent as a signed varint and the
\* big-endian magnitude.
BinaryRoundTrip ==
    /\ (op = "UnmarshalBinary" /\ arge = Bytes(argx) /\ argx.value >= 0) =>
        /\ ret = NoError
        /\ rcv.value = argx.value /\ rcv.exp = argx.exp
        /\ String(rcv) = String(argx)
    /\ Bytes(NewAmount(0, 0)) = <<0, 0>>
    /\ Bytes(NewAmount(5, 10)) = <<0, 20, 5>>
    /\ Bytes(NewAmount(300, 64)) = <<0, 128, 1, 1, 44>>

\* C13 witness: an Amount with a two-byte exponent varint and a two-byte
\* magnitude has come back from its bytes
BinaryRoundTripWitness ==
    /\ op = "UnmarshalBinary" /\ arge = Bytes(argx)
    /\ argx.exp >= TwoByteExp /\ argx.value >= TwoByteVal
    /\ Len(arge) = 5 /\ rcv = argx /\ rcv # pre

\* the varint at the head of buf ends within 10 bytes and within 64 bits
VarintWellFormed(buf) ==
    \E i \in 1..Len(buf) :
        /\ i <= MaxVarintLen64 /\ buf[i] < 128
        /\ \A j \in 1..(i - 1) : buf[j] >= 128
        /\ i = MaxVarintLen64 => buf[i] <= 1

Malformed(data) ==
    Len(data) < 2 \/ data[1] # 0 \/ ~VarintWellFormed(Tail(data))

\* C14: UnmarshalBinary returns an error and leaves the receiver's
\* significand and exponent as they were when the buffer has fewer than 2
\* bytes, its first byte is not 0x00, or the exponent varint is malformed.
UnmarshalBinaryRejectsMalformed ==
    (op = "UnmarshalBinary" /\ Malformed(arge)) =>
        (ret # NoError /\ rcv = pre)

\* C14 witness: a nonzero receiver has been handed a buffer whose varint is
\* cut off, and is still what it was
UnmarshalBinaryRejectsMalformedWitness ==
    /\ op = "UnmarshalBinary" /\ Len(arge) >= 2 /\ arge[1] = 0
    /\ Malformed(arge)
    /\ ret # NoError /\ pre.value # 0 /\ rcv = pre

\* C15: for every Amount a, parsing its MarshalJSON object, the string
\* a.String() or the JSON number a.String() succeeds and yields a's
\* significand and exponent.
JSONRoundTrip ==
    op = "UnmarshalJSON" =>
        (ret = NoError /\ rcv.value = argx.value /\ rcv.exp = argx.exp)

(***************************************************************************)
(* order.go: NominalAmount and Reverse.                                    *)
(***************************************************************************)
\* NominalAmount returns an Amount, nil (a market order without Amount), or
\* Panic when Div dereferences a nil SpendLimit or Cmp is given differing
\* exponents.
NominalAmount(a, amountExp) ==
    IF a.Price = Nil THEN a.Amount
    ELSE IF a.Amount = Nil
    THEN Div(NewAmount(0, amountExp), a.SpendLimit, a.Price)
    ELSE IF a.SpendLimit # Nil
    THEN LET amt2 == Div(NewAmount(0, amountExp), a.SpendLimit, a.Price)
         IN  IF amt2 = Panic \/ CmpPanics(a.Amount, amt2) THEN Panic
             ELSE IF Cmp(a.Amount, amt2) > 0 THEN amt2 ELSE a.Amount
    ELSE a.Amount

(***************************************************************************)
(* NominalSpec: o.NominalAmount(e) applied once to every valid order o and *)
(* every target exponent e.                                                *)
(***************************************************************************)
TargetExps == 0..(MaxExp + 1)

NominalInit ==
    /\ rcv = NewAmount(0, 0) /\ argx = NewAmount(0, 0) /\ argy = NewAmount(0, 0)
    /\ arge \in TargetExps /\ op = "new" /\ pre = NewAmount(0, 0) /\ ret = Nil
    /\ ordA \in {o \in IncomingOrders : ~(o.Amount = Nil /\ o.SpendLimit = Nil)}
    /\ ordB = Nil /\ trade = Nil /\ pc = "new"
    /\ dedA = FALSE /\ dedB = FALSE /\ last = NoCall
    /\ limit0 = Nil /\ notional = 0 /\ nrest = 0
    /\ tally = Nil
    /\ TimeIdle /\ HeapIdle /\ ConcIdle

CallNominalAmount ==
    /\ pc = "new"
    /\ last' = [call |-> "NominalAmount", ret |-> NominalAmount(ordA, arge)]
    /\ pc' = IF last'.ret = Panic THEN "panic" ELSE "returned"
    /\ UNCHANGED <<ordA, ordB, trade, dedA, dedB, limit0, notional, nrest, tally>>
    /\ UNCHANGED <<arithVars, timeVars, heapVars, concVars>>

NominalNext == CallNominalAmount

NominalSpec == NominalInit /\ [][NominalNext]_vars

\* SpendLimit / Price at the target exponent, as Div computes it
LimitOverPrice(o, e) == Div(NewAmount(0, e), o.SpendLimit, o.Price)

\* amount x is numerically no larger than amount y
NoLarger(x, y) == x.value * 10 ^ y.exp <= y.value * 10 ^ x.exp

\* C16: for every order o and every target exponent e, o.NominalAmount(e)
\* returns o.Amount when o has no Price, SpendLimit / Price at exponent e
\* when only SpendLimit is set, and the smaller of Amount and
\* SpendLimit / Price when both are set.
NominalAmountByCase ==
    last.call = "NominalAmount" =>
        /\ pc = "returned"
        /\ ordA.Price = Nil => last.ret = ordA.Amount
        /\ (ordA.Price # Nil /\ ordA.Amount = Nil) =>
              (last.ret = LimitOverPrice(ordA, arge) /\ last.ret.exp = arge)
        /\ (ordA.Price # Nil /\ ordA.Amount # Nil /\ ordA.SpendLimit = Nil) =>
              last.ret = ordA.Amount
        /\ (ordA.Price # Nil /\ ordA.Amount # Nil /\ ordA.SpendLimit # Nil) =>
              last.ret = IF NoLarger(ordA.Amount, LimitOverPrice(ordA, arge))
                         THEN ordA.Amount
                         ELSE LimitOverPrice(ordA, arge)

\* OrderType.Reverse: bid and ask exchanged, anything else invalid
OrderTypeReverse(t) ==
    IF t = TypeBid THEN TypeAsk
    ELSE IF t = TypeAsk THEN TypeBid
    ELSE TypeInvalid

\* A Reverse that leaves Amount and SpendLimit where they are.
ReverseKeepingAmounts(o) ==
    [o EXCEPT !.Pair = <<o.Pair[2], o.Pair[1]>>,
              !.Type = OrderTypeReverse(o.Type),
              !.Price = IF o.Price # Nil THEN Reciprocal(o.Price) ELSE Nil]

\* Reverse: a copy of the order with the pair's legs exchanged, the type
\* reversed, Amount and SpendLimit exchanged (each duplicated) and the
\* Price, when there is one, replaced by its reciprocal
Reverse(o) ==
    [o EXCEPT !.Pair = <<o.Pair[2], o.Pair[1]>>,
              !.Type = OrderTypeReverse(o.Type),
              !.Amount = Dup(o.SpendLimit),
              !.SpendLimit = Dup(o.Amount),
              !.Price = IF o.Price # Nil THEN Reciprocal(o.Price) ELSE Nil]

(***************************************************************************)
(* ReverseSpec: o.Reverse() and then o.Reverse().Reverse(), for every      *)
(* order o (valid or not) whose Price, if any, has a reciprocal with a     *)
(* short decimal text: NewAmountFromFloat only reads the text when it is   *)
(* asked for 0 decimals.                                                   *)
(***************************************************************************)
RECURSIVE OnlyTwosAndFives(_)
OnlyTwosAndFives(n) ==
    IF n = 1 THEN TRUE
    ELSE IF n % 2 = 0 THEN OnlyTwosAndFives(n \div 2)
    ELSE IF n % 5 = 0 THEN OnlyTwosAndFives(n \div 5)
    ELSE FALSE

HasShortReciprocal(a) ==
    a.value # 0 /\ (a.exp > 0 \/ OnlyTwosAndFives(Abs(a.value)))

ReverseInit ==
    /\ ArithIdle /\ TimeIdle /\ HeapIdle /\ ConcIdle
    /\ ordA \in {o \in IncomingOrders :
                    o.Price = Nil \/ HasShortReciprocal(o.Price)}
    /\ ordB = Nil /\ trade = Nil /\ pc = "new"
    /\ dedA = FALSE /\ dedB = FALSE /\ last = NoCall
    /\ limit0 = Nil /\ notional = 0 /\ nrest = 0
    /\ tally = Nil

\* ordB is o.Reverse() after the first call, o.Reverse().Reverse() after
\* the second
CallReverse ==
    /\ pc \in {"new", "reversed"}
    /\ ordB' = Reverse(IF pc = "new" THEN ordA ELSE ordB)
    /\ pc' = IF pc = "new" THEN "reversed" ELSE "restored"
    /\ last' = [call |-> "Reverse"]
    /\ UNCHANGED <<ordA, trade, dedA, dedB, limit0, notional, nrest, tally>>
    /\ UNCHANGED <<arithVars, timeVars, heapVars, concVars>>

ReverseNext == CallReverse

ReverseSpec == ReverseInit /\ [][ReverseNext]_vars

\* C17: a single Reverse exchanges the legs of the pair, flips bid and ask
\* and exchanges Amount with SpendLimit; for an order of type bid or ask,
\* Reverse applied twice gives back the Pair, the Type, the Amount and the
\* SpendLimit.
ReverseIsInvolution ==
    /\ pc = "reversed" =>
        /\ ordB.Pair = <<ordA.Pair[2], ordA.Pair[1]>>
        /\ ordA.Type = TypeBid => ordB.Type = TypeAsk
        /\ ordA.Type = TypeAsk => ordB.Type = TypeBid
        /\ ordB.Amount = ordA.SpendLimit /\ ordB.SpendLimit = ordA.Amount
    /\ (pc = "restored" /\ ordA.Type \in {TypeBid, TypeAsk}) =>
        /\ ordB.Pair = ordA.Pair /\ ordB.Type = ordA.Type
        /\ ordB.Amount = ordA.Amount /\ ordB.SpendLimit = ordA.SpendLimit

\* C17 witness: a priced bid with different Amount and SpendLimit has been
\* reversed twice; pair, type and amounts are back, the Price is not
ReverseIsInvolutionWitness ==
    /\ pc = "restored" /\ ordA.Type = TypeBid
    /\ ordA.Amount # Nil /\ ordA.SpendLimit # Nil
    /\ ordA.Amount # ordA.SpendLimit /\ ordA.Price # Nil
    /\ ordB.Pair = ordA.Pair /\ ordB.Type = TypeBid
    /\ ordB.Amount = ordA.Amount /\ ordB.Price # ordA.Price

\* C18: a.Reciprocal() has a's exponent, so the Price of o.Reverse() has
\* the exponent of o.Price.
ReciprocalKeepsExponent ==
    (pc = "reversed" /\ ordA.Price # Nil) =>
        /\ Reciprocal(ordA.Price).exp = ordA.Price.exp
        /\ ordB.Price.exp = ordA.Price.exp

(***************************************************************************)
(* ProduceSpec: one constructor, deserializer or operator of Amount applied *)
(* once.  rcv is the Amount the call produced (or the receiver it left),    *)
(* argx and argy are operands with exponents >= 0, arge is the integer      *)
(* argument (decimals, e, or the exponent found in the data) and may be     *)
(* negative.                                                                *)
(***************************************************************************)
IntArgs == (-1)..MaxExp

ProduceInit ==
    /\ rcv \in Receivers /\ argx \in AmountSet
    /\ argy \in {a \in AmountSet : a.value = MaxVal}
    /\ arge \in IntArgs /\ op = "new" /\ pre = rcv /\ ret = Nil
    /\ OrderIdle /\ TimeIdle /\ HeapIdle /\ ConcIdle

\* the call named name has returned r: a nil or a panic leaves rcv alone
Produce(name, r) ==
    /\ op = "new"
    /\ IF r \in {Nil, Panic}
       THEN op' = "failed" /\ rcv' = rcv
       ELSE op' = name /\ rcv' = r
    /\ pre' = rcv
    /\ UNCHANGED <<argx, argy, arge, ret>>
    /\ UNCHANGED <<orderVars, timeVars, heapVars, concVars>>

CallNewAmount == Produce("NewAmount", NewAmount(argx.value, arge))

CallNewAmountRaw == Produce("NewAmountRaw", NewAmountRaw(argx.value, arge))

\* the strings are a.String() and the same with an exponent suffix
CallNewAmountFromString ==
    \E suffix \in {<<>>, <<"e", "1">>, <<"e", "-", "1">>} :
        Produce("NewAmountFromString",
                NewAmountFromString(String(argx) \o suffix, arge))

CallNewAmountFromFloat ==
    Produce("NewAmountFromFloat", NewAmountFromFloat(Float(argx), arge))

CallAdd == Produce("Add", Add(rcv, argx, argy))

CallSub == Produce("Sub", Sub(rcv, argx, argy))

CallNeg == Produce("Neg", Neg(argx))

CallDup == Produce("Dup", Dup(argx))

CallReciprocal ==
    /\ HasShortReciprocal(argx)
    /\ Produce("Reciprocal", Reciprocal(argx))

ProduceNext ==
    \/ CallNewAmount \/ CallNewAmountRaw
    \/ CallNewAmountFromString \/ CallNewAmountFromFloat
    \/ CallUnmarshalBinary(Bytes(NewAmountRaw(argx.value, arge)))
    \/ CallUnmarshalJSON(JSONObject(Text(argx.value), arge))
    \/ CallUnmarshalJSON(JSONString(String(argx)))
    \/ CallSetExp(arge) \/ CallAdd \/ CallSub \/ CallMul \/ CallDiv
    \/ CallNeg \/ CallReciprocal \/ CallDup

ProduceSpec == ProduceInit /\ [][ProduceNext]_vars

\* C19: every Amount produced by a constructor, a deserializer or an
\* operator has exp >= 0, whatever the input.
ExpNeverNegative == rcv.exp >= 0

(***************************************************************************)
(* timeid.go.  A TimeId is the record [Type, Unix, Nano, Index].  Unix and *)
(* Nano are only compared and copied.  Index is a uint32 that Unique       *)
(* increments, so it keeps its width: it is the record [hi, lo] of its two *)
(* 16 bit halves (2^32 - 1 is beyond the integers TLC computes with).      *)
(***************************************************************************)
HalfWord == 65536       \* 2^16: a uint32 is hi * 2^16 + lo

Uint32(hi, lo) == [hi |-> hi, lo |-> lo]

MaxUint32 == Uint32(HalfWord - 1, HalfWord - 1)

\* x + 1 on a uint32: wraps from 2^32 - 1 to 0
Uint32Inc(x) ==
    IF x.lo < HalfWord - 1 THEN Uint32(x.hi, x.lo + 1)
    ELSE Uint32((x.hi + 1) % HalfWord, 0)

\* x > y on uint32
Uint32Gt(x, y) == x.hi > y.hi \/ (x.hi = y.hi /\ x.lo > y.lo)

\* TimeId.Cmp: Unix, then Nano, then Index
TimeIdCmp(a, b) ==
    IF a.Unix > b.Unix THEN 1
    ELSE IF a.Unix < b.Unix THEN -1
    ELSE IF a.Nano > b.Nano THEN 1
    ELSE IF a.Nano < b.Nano THEN -1
    ELSE IF Uint32Gt(a.Index, b.Index) THEN 1
    ELSE IF Uint32Gt(b.Index, a.Index) THEN -1
    ELSE 0

\* Unique(t) returns the generator u and the TimeId t as the call leaves
\* them.  A t after Last in seconds or nanoseconds is copied into Last; a t
\* at Last's time with a higher index gives Last its Index only; any other
\* t is overwritten with Last after Last.Index += 1.
Unique(u, t) ==
    IF t.Unix > u.Last.Unix THEN [u |-> [Last |-> t], t |-> t]
    ELSE IF t.Unix = u.Last.Unix /\ t.Nano > u.Last.Nano
    THEN [u |-> [Last |-> t], t |-> t]
    ELSE IF /\ t.Unix = u.Last.Unix /\ t.Nano = u.Last.Nano
            /\ Uint32Gt(t.Index, u.Last.Index)
    THEN [u |-> [Last |-> [u.Last EXCEPT !.Index = t.Index]], t |-> t]
    ELSE LET bumped == [u.Last EXCEPT !.Index = Uint32Inc(u.Last.Index)]
         IN  [u |-> [Last |-> bumped], t |-> bumped]

(***************************************************************************)
(* TimeSpec: one TimeIdUnique, starting from its zero value, is given a    *)
(* sequence of TimeIds by one caller, one Unique(t) at a time.  The times  *)
(* move forward, stand still or move backward; the index given is 0, 1 or  *)
(* the largest uint32.                                                     *)
(***************************************************************************)
MaxUnix == 1        \* Unix seconds of the ids given: 0..MaxUnix
MaxNano == 1        \* nanoseconds of the ids given: 0..MaxNano
MaxCalls == 3       \* calls of Unique in one behaviour

TimeIds ==
    [Type : {"order", "trade"}, Unix : 0..MaxUnix, Nano : 0..MaxNano,
     Index : {Uint32(0, 0), Uint32(0, 1), MaxUint32}]

TimeInit ==
    /\ ArithIdle /\ OrderIdle /\ TimeIdle /\ HeapIdle /\ ConcIdle

CallUnique(t) ==
    /\ Len(produced) < MaxCalls
    /\ LET r == Unique(uniqueTime, t)
       IN  /\ uniqueTime' = r.u
           /\ tid' = r.t
           /\ given' = t
           /\ produced' = Append(produced, r.t)
    /\ UNCHANGED <<arithVars, orderVars, heapVars, concVars>>

TimeNext == \E t \in TimeIds : CallUnique(t)

TimeSpec == TimeInit /\ [][TimeNext]_vars

\* C20: every TimeId that Unique(t) leaves in t is strictly greater, under
\* TimeId.Cmp, than every TimeId it left before, whatever times are given,
\* and Last is (under Cmp) the id left by the latest call.
UniqueStrictlyIncreases ==
    /\ \A i, j \in 1..Len(produced) :
           i < j => TimeIdCmp(produced[j], produced[i]) = 1
    /\ produced # <<>> =>
        /\ tid = produced[Len(produced)]
        /\ TimeIdCmp(uniqueTime.Last, tid) = 0

(***************************************************************************)
(* GoSpec: several goroutines call NewUniqueTimeId() against the one       *)
(* global uniqueTime.  Unique takes no lock, so the goroutines' reads and  *)
(* writes of uniqueTime.Last interleave: the comparisons are one step,    *)
(* every store is a step, and u.Last.Index += 1 is a load and a store.     *)
(* The data race is modelled by these interleavings; torn reads of Last    *)
(* would only add outcomes.                                                *)
(***************************************************************************)
MaxGoroutines == 2  \* goroutines calling concurrently
MaxCallsEach == 2   \* calls of NewUniqueTimeId by one goroutine

Goroutines == 1..MaxGoroutines

\* NewTimeId: the clock's reading, Index 0, Type empty
NewTimeId(unix, nano) ==
    [Type |-> "", Unix |-> unix, Nano |-> nano, Index |-> Uint32(0, 0)]

\* the comparisons of Unique(t) against Last: which store the call goes on to
UniqueBranch(u, t) ==
    IF t.Unix > u.Last.Unix THEN "last"
    ELSE IF t.Unix = u.Last.Unix /\ t.Nano > u.Last.Nano THEN "last"
    ELSE IF /\ t.Unix = u.Last.Unix /\ t.Nano = u.Last.Nano
            /\ Uint32Gt(t.Index, u.Last.Index)
    THEN "index"
    ELSE "bump"

GoIdle == [pc |-> "idle", t |-> Nil, branch |-> "", idx |-> Uint32(0, 0),
           calls |-> 0]

GoInit ==
    /\ ArithIdle /\ OrderIdle /\ TimeIdle /\ HeapIdle
    /\ gor = [g \in Goroutines |-> GoIdle]
    /\ exp10cache = <<>> /\ exp10fcache = <<>> /\ exp10lock = Unlocked
    /\ computed = <<>>

GoUnchanged ==
    UNCHANGED <<arithVars, orderVars, heapVars, tid, given,
                exp10cache, exp10fcache, exp10lock, computed>>

\* t := NewTimeId()
GoNewTimeId(g) ==
    /\ gor[g].pc = "idle" /\ gor[g].calls < MaxCallsEach
    /\ \E unix \in 0..MaxUnix, nano \in 0..MaxNano :
           gor' = [gor EXCEPT ![g].pc = "compare",
                              ![g].t = NewTimeId(unix, nano),
                              ![g].calls = @ + 1]
    /\ UNCHANGED <<uniqueTime, produced>>
    /\ GoUnchanged

\* the if statements of Unique
GoCompare(g) ==
    /\ gor[g].pc = "compare"
    /\ LET b == UniqueBranch(uniqueTime, gor[g].t)
       IN  gor' = [gor EXCEPT ![g].branch = b,
                              ![g].pc = IF b = "bump" THEN "load" ELSE "store"]
    /\ UNCHANGED <<uniqueTime, produced>>
    /\ GoUnchanged

\* u.Last = *t, or u.Last.Index = t.Index; return
GoStore(g) ==
    /\ gor[g].pc = "store"
    /\ uniqueTime' =
           IF gor[g].branch = "last" THEN [Last |-> gor[g].t]
           ELSE [Last |-> [uniqueTime.Last EXCEPT !.Index = gor[g].t.Index]]
    /\ produced' = Append(produced, gor[g].t)
    /\ gor' = [gor EXCEPT ![g].pc = "idle"]
    /\ GoUnchanged

\* u.Last.Index += 1: the load
GoLoadIndex(g) ==
    /\ gor[g].pc = "load"
    /\ gor' = [gor EXCEPT ![g].idx = uniqueTime.Last.Index, ![g].pc = "inc"]
    /\ UNCHANGED <<uniqueTime, produced>>
    /\ GoUnchanged

\* u.Last.Index += 1: the store
GoStoreIndex(g) ==
    /\ gor[g].pc = "inc"
    /\ uniqueTime' =
           [Last |-> [uniqueTime.Last EXCEPT !.Index = Uint32Inc(gor[g].idx)]]
    /\ gor' = [gor EXCEPT ![g].pc = "copy"]
    /\ UNCHANGED produced
    /\ GoUnchanged

\* *t = u.Last; return
GoCopyBack(g) ==
    /\ gor[g].pc = "copy"
    /\ produced' = Append(produced, uniqueTime.Last)
    /\ gor' = [gor EXCEPT ![g].t = uniqueTime.Last, ![g].pc = "idle"]
    /\ UNCHANGED uniqueTime
    /\ GoUnchanged

GoNext ==
    \E g \in Goroutines :
        \/ GoNewTimeId(g)
        \/ GoCompare(g)
        \/ GoStore(g)
        \/ GoLoadIndex(g)
        \/ GoStoreIndex(g)
        \/ GoCopyBack(g)

GoSpec == GoInit /\ [][GoNext]_vars

\* C21: no two calls of NewUniqueTimeId, from whichever goroutines and in
\* whichever interleaving, return TimeIds with equal (Unix, Nano, Index).
NewUniqueTimeIdIsUnique ==
    \A i, j \in 1..Len(produced) :
        i < j =>
            <<produced[i].Unix, produced[i].Nano, produced[i].Index>>
                # <<produced[j].Unix, produced[j].Nano, produced[j].Index>>

(***************************************************************************)
(* orderflags.go: OrderFlags is a bit set of ioc, fok and stop, written to *)
(* JSON as an array of the names of the bits set.                          *)
(***************************************************************************)
FlagImmediateOrCancel == 1
FlagFillOrKill == 2
FlagStop == 4

\* f & flag == flag, for a flag of one bit
HasFlag(f, flag) == (f \div flag) % 2 = 1

JSONNull == [kind |-> "null"]
JSONArray(a) == [kind |-> "array", a |-> a]

\* json.Marshal of a []string: a nil slice is written as null
MarshalStrings(flags) == IF flags = <<>> THEN JSONNull ELSE JSONArray(flags)

OrderFlagsMarshalJSON(f) ==
    LET ioc == IF HasFlag(f, FlagImmediateOrCancel) THEN <<"ioc">> ELSE <<>>
        fok == IF HasFlag(f, FlagFillOrKill) THEN <<"fok">> ELSE <<>>
        stop == IF HasFlag(f, FlagStop) THEN <<"stop">> ELSE <<>>
    IN  MarshalStrings(ioc \o fok \o stop)

\* the loop of UnmarshalJSON over the names in flags, res being the bits
\* collected so far: the flags and the error it ends with
RECURSIVE FlagsOfNames(_, _)
FlagsOfNames(flags, res) ==
    IF flags = <<>> THEN [f |-> res, err |-> NoError]
    ELSE LET s == Head(flags)
             bit == IF s = "ioc" THEN FlagImmediateOrCancel
                    ELSE IF s = "fok" THEN FlagFillOrKill
                    ELSE IF s = "stop" THEN FlagStop
                    ELSE 0
         IN  IF bit = 0 THEN [f |-> -1, err |-> "unsupported flag"]
             ELSE FlagsOfNames(Tail(flags),
                               IF HasFlag(res, bit) THEN res ELSE res + bit)

\* UnmarshalJSON(j) on the receiver holding f: the receiver's value and the
\* error afterwards.  The slice flags is declared and never filled from j,
\* so the loop runs over the nil slice.
OrderFlagsUnmarshalJSON(f, j) ==
    LET flags == <<>>
        r == FlagsOfNames(flags, 0)
    IN  IF r.err # NoError THEN [f |-> f, err |-> r.err]
        ELSE [f |-> r.f, err |-> NoError]

(***************************************************************************)
(* FlagsSpec: a flag set is marshalled and the document unmarshalled into  *)
(* a receiver holding some earlier flags; documents naming unsupported     *)
(* flags are unmarshalled too.  rcv is the receiver, argx the document,    *)
(* pre the flags marshalled, ret the error returned.                       *)
(***************************************************************************)
FlagSets == 0..(FlagImmediateOrCancel + FlagFillOrKill + FlagStop)

FlagNames == {"ioc", "fok", "stop", "gtc"}

\* arrays of one or two names of which at least one is no flag's name
UnsupportedDocuments ==
    {JSONArray(a) : a \in {s \in [1..1 -> FlagNames] \cup [1..2 -> FlagNames] :
                               \E i \in DOMAIN s : s[i] = "gtc"}}

Flags(f) == [flags |-> f]

FlagsInit ==
    /\ rcv \in {Flags(f) : f \in FlagSets}
    /\ argx = JSONNull /\ argy = NewAmount(0, 0) /\ arge = 0
    /\ op = "new" /\ pre = Flags(0) /\ ret = NoError
    /\ OrderIdle /\ TimeIdle /\ HeapIdle /\ ConcIdle

CallFlagsMarshalJSON(f) ==
    /\ argx' = OrderFlagsMarshalJSON(f)
    /\ pre' = Flags(f)
    /\ op' = "MarshalJSON" /\ ret' = NoError
    /\ UNCHANGED <<rcv, argy, arge>>
    /\ UNCHANGED <<orderVars, timeVars, heapVars, concVars>>

\* the document just marshalled is unmarshalled into the receiver
CallFlagsUnmarshalJSON ==
    /\ op = "MarshalJSON"
    /\ LET r == OrderFlagsUnmarshalJSON(rcv.flags, argx)
       IN  /\ rcv' = Flags(r.f) /\ ret' = r.err
    /\ op' = "UnmarshalJSON"
    /\ UNCHANGED <<argx, argy, arge, pre>>
    /\ UNCHANGED <<orderVars, timeVars, heapVars, concVars>>

CallFlagsUnmarshalUnsupported(j) ==
    /\ LET r == OrderFlagsUnmarshalJSON(rcv.flags, j)
       IN  /\ rcv' = Flags(r.f) /\ ret' = r.err
    /\ argx' = j
    /\ op' = "UnmarshalJSON unsupported"
    /\ UNCHANGED <<argy, arge, pre>>
    /\ UNCHANGED <<orderVars, timeVars, heapVars, concVars>>

FlagsNext ==
    \/ \E f \in FlagSets : CallFlagsMarshalJSON(f)
    \/ CallFlagsUnmarshalJSON
    \/ \E j \in UnsupportedDocuments : CallFlagsUnmarshalUnsupported(j)

FlagsSpec == FlagsInit /\ [][FlagsNext]_vars

\* C22: unmarshalling the JSON of a flag set gives that flag set back with no
\* error, for every combination of ioc, fok and stop; unmarshalling a
\* document with an unsupported flag name returns an error.
OrderFlagsRoundTrip ==
    /\ op = "UnmarshalJSON" => rcv = pre /\ ret = NoError
    /\ op = "UnmarshalJSON unsupported" => ret # NoError

(***************************************************************************)
(* The heap.  An *Amount is the address of an Amount object, whose value   *)
(* field is the address of a big.Int object; address 0 is nil.  The        *)
(* operators below are the methods of amount.go with their receivers and   *)
(* operands passed by address: each gives the heap as the call leaves it.  *)
(* What the methods compute is taken from the operators on numbers above.  *)
(***************************************************************************)

\* the number held by the Amount at address p
AmountAt(h, p) ==
    IF p = 0 THEN Nil
    ELSE [value |-> h.ints[h.amts[p].value], exp |-> h.amts[p].exp]

\* &Amount{value: big.NewInt(value), exp: decimals}
HeapNewAmount(h, value, decimals) ==
    LET ints == Append(h.ints, value)
        amts == Append(h.amts, [value |-> Len(ints), exp |-> decimals])
    IN  [h |-> [ints |-> ints, amts |-> amts], p |-> Len(amts)]

\* &Amount{exp: decimals}: an Amount whose value is nil
HeapZeroAmount(h, decimals) ==
    LET amts == Append(h.amts, [value |-> 0, exp |-> decimals])
    IN  [h |-> [h EXCEPT !.amts = amts], p |-> Len(amts)]

\* a Dup that hands back the Amount it was given
HeapSamePointer(h, a) == [h |-> h, p |-> a]

\* Dup: a new Amount with a new big.Int set to a's; nil stays nil
HeapDup(h, a) ==
    IF a = 0 THEN [h |-> h, p |-> 0]
    ELSE HeapNewAmount(h, h.ints[h.amts[a].value], h.amts[a].exp)

\* the number behind the big.Int of the Amount at address p
ValueAt(h, p) == h.ints[h.amts[p].value]

\* the big.Int of the Amount at address a is set to v
HeapSetValue(h, a, v) == [h EXCEPT !.ints[h.amts[a].value] = v]

\* the big.Int and the exp of the Amount at address a are set to those of r
HeapWrite(h, a, r) ==
    [h EXCEPT !.ints[h.amts[a].value] = r.value, !.amts[a].exp = r.exp]

\* SetExp writes the receiver's own big.Int and exp
HeapSetExp(h, a, e) == HeapWrite(h, a, SetExp(AmountAt(h, a), e))

\* d.SetExp(e) on the copy d, which is returned
SetExpOfCopy(d, e) == [h |-> HeapSetExp(d.h, d.p, e), p |-> d.p]

\* x = x.Dup().SetExp(e)
HeapRescaledCopy(h, x, e) == SetExpOfCopy(HeapDup(h, x), e)

\* if x.exp != a.exp { x = x.Dup().SetExp(a.exp) }
HeapAligned(h, a, x) ==
    IF h.amts[x].exp # h.amts[a].exp
    THEN HeapRescaledCopy(h, x, h.amts[a].exp)
    ELSE [h |-> h, p |-> x]

\* the heap and the operands once x, as rx, and y, as ry, are aligned
BothAligned(rx, ry) == [h |-> ry.h, x |-> rx.p, y |-> ry.p]

\* x is aligned as rx; y is aligned next
AlignedSecond(a, rx, y) == BothAligned(rx, HeapAligned(rx.h, a, y))

\* x, then y, aligned to the exp of a
HeapAlignedOperands(h, a, x, y) == AlignedSecond(a, HeapAligned(h, a, x), y)

\* a.value.Add(x.value, y.value) on the aligned operands r
AddOperands(a, r) ==
    HeapSetValue(r.h, a, ValueAt(r.h, r.x) + ValueAt(r.h, r.y))

\* a.value.Sub(x.value, y.value) on the aligned operands r
SubOperands(a, r) ==
    HeapSetValue(r.h, a, ValueAt(r.h, r.x) - ValueAt(r.h, r.y))

HeapAdd(h, a, x, y) == AddOperands(a, HeapAlignedOperands(h, a, x, y))

HeapSub(h, a, x, y) == SubOperands(a, HeapAlignedOperands(h, a, x, y))

\* Mul: a.value is allocated when nil, set to the product, a.exp set to the
\* sum of the operands' exponents, and a rescaled to the exp it had
HeapMul(h, a, x, y) ==
    LET h1 == IF h.amts[a].value # 0 THEN h
              ELSE [h EXCEPT !.ints = Append(@, 0),
                             !.amts[a].value = Len(h.ints) + 1]
        h2 == [h1 EXCEPT !.ints[h1.amts[a].value] =
                             AmountAt(h1, x).value * AmountAt(h1, y).value]
        exp == h2.amts[a].exp
        h3 == [h2 EXCEPT !.amts[a].exp = h2.amts[x].exp + h2.amts[y].exp]
    IN  HeapSetExp(h3, a, exp)

\* a.value.Quo(x.value, y.value) for the rescaled copy rx of x; a zero
\* divisor panics in Quo
QuoOfCopy(a, rx, y) ==
    IF ValueAt(rx.h, y) = 0 THEN [h |-> rx.h, panic |-> TRUE]
    ELSE [h |-> HeapSetValue(rx.h, a,
                             Quo(ValueAt(rx.h, rx.p), ValueAt(rx.h, y))),
          panic |-> FALSE]

\* Div: x is always rescaled on a copy
HeapDiv(h, a, x, y) ==
    QuoOfCopy(a, HeapRescaledCopy(h, x, h.amts[y].exp + h.amts[a].exp), y)

(***************************************************************************)
(* OperandSpec: a receiver a and operands x and y, each an Amount of its   *)
(* own with a big.Int of its own as the constructors make them (x and y    *)
(* may be one object), and one call of Add, Sub, Mul or Div.               *)
(***************************************************************************)
OperandValues == {-15, 0, 4}

OperandInit ==
    /\ \E ea, ex, ey \in Exps, vx, vy \in OperandValues,
          unset, same \in BOOLEAN :
           LET a == IF unset THEN HeapZeroAmount(EmptyHeap, ea)
                    ELSE HeapNewAmount(EmptyHeap, 1, ea)
               x == HeapNewAmount(a.h, vx, ex)
               y == IF same THEN x ELSE HeapNewAmount(x.h, vy, ey)
           IN  /\ heap = y.h
               /\ roots = [a |-> a.p, x |-> x.p, y |-> y.p]
    /\ heap0 = Nil /\ hcall = NoCall
    /\ ArithIdle /\ OrderIdle /\ TimeIdle /\ ConcIdle

\* the caller's pointers stay what they are; one call per behaviour
Operate(name, h) ==
    /\ hcall = NoCall
    /\ heap0 = Nil
    /\ heap0' = heap
    /\ heap' = h
    /\ hcall' = [call |-> name]
    /\ UNCHANGED roots
    /\ UNCHANGED <<arithVars, orderVars, timeVars, concVars>>

HasValue(p) == heap.amts[p].value # 0

CallHeapAdd ==
    /\ HasValue(roots.a)
    /\ Operate("Add", HeapAdd(heap, roots.a, roots.x, roots.y))

CallHeapSub ==
    /\ HasValue(roots.a)
    /\ Operate("Sub", HeapSub(heap, roots.a, roots.x, roots.y))

CallHeapMul == Operate("Mul", HeapMul(heap, roots.a, roots.x, roots.y))

CallHeapDiv ==
    /\ HasValue(roots.a)
    /\ LET r == HeapDiv(heap, roots.a, roots.x, roots.y)
       IN  Operate(IF r.panic THEN "Div panics" ELSE "Div", r.h)

OperandNext == CallHeapAdd \/ CallHeapSub \/ CallHeapMul \/ CallHeapDiv

OperandSpec == OperandInit /\ [][OperandNext]_vars

\* the Amount at p is, object and big.Int, what it was before the call
SameAsBefore(p) ==
    /\ heap.amts[p] = heap0.amts[p]
    /\ heap.ints[heap.amts[p].value] = heap0.ints[heap0.amts[p].value]

\* C23: after a.Add(x, y), a.Sub(x, y), a.Mul(x, y) or a.Div(x, y) with x and
\* y other objects than a, the significand and the exponent of x and of y
\* are what they were before the call, rescaled or not.
OperandsNeverMutated ==
    hcall.call \in {"Add", "Sub", "Mul", "Div", "Div panics"} =>
        SameAsBefore(roots.x) /\ SameAsBefore(roots.y)

\* C23 witness: an Add whose operands both had to be rescaled changed a
OperandsNeverMutatedWitness ==
    /\ hcall.call = "Add"
    /\ heap.amts[roots.x].exp # heap.amts[roots.a].exp
    /\ heap.amts[roots.y].exp # heap.amts[roots.a].exp
    /\ roots.x # roots.y
    /\ AmountAt(heap, roots.a) # AmountAt(heap0, roots.a)
    /\ AmountAt(heap, roots.x).value # 0

(***************************************************************************)
(* order.go and trade.go on the heap.  An order is held with its Amount,   *)
(* Price and SpendLimit as addresses of Amount objects, a trade with its   *)
(* Amount and Price as addresses; OrderAt and TradeAt read the numbers     *)
(* behind the addresses.                                                   *)
(***************************************************************************)
OrderAt(h, o) ==
    [o EXCEPT !.Amount = AmountAt(h, o.Amount),
              !.Price = AmountAt(h, o.Price),
              !.SpendLimit = AmountAt(h, o.SpendLimit)]

TradeAt(h, t) ==
    IF t = Nil THEN Nil
    ELSE [t EXCEPT !.Amount = AmountAt(h, t.Amount),
                   !.Price = AmountAt(h, t.Price)]

\* n.Div(x, y) on the new Amount n, which is returned
DivInto(n, x, y) == [h |-> HeapDiv(n.h, n.p, x, y).h, p |-> n.p]

\* NewAmount(0, exp).Div(x, y), for a y that is not zero
HeapQuotient(h, exp, x, y) == DivInto(HeapNewAmount(h, 0, exp), x, y)

\* if amount.Cmp(q) > 0 { return q }; return amount
HeapUnlessLess(q, amount) ==
    IF Cmp(AmountAt(q.h, amount), AmountAt(q.h, q.p)) > 0
    THEN q ELSE [h |-> q.h, p |-> amount]

\* if r.Cmp(amount) > 0 { return amount }; return r
HeapUnlessMore(r, amount) ==
    IF Cmp(AmountAt(r.h, r.p), AmountAt(r.h, amount)) > 0
    THEN [h |-> r.h, p |-> amount] ELSE r

\* the amount a asks for before b.Amount is looked at
HeapAskedAmount(h, a, b) ==
    IF a.Amount = 0
    THEN HeapQuotient(h, h.amts[b.Amount].exp, a.SpendLimit, b.Price)
    ELSE IF a.SpendLimit # 0
    THEN HeapUnlessLess(HeapQuotient(h, h.amts[b.Amount].exp,
                                     a.SpendLimit, b.Price), a.Amount)
    ELSE [h |-> h, p |-> a.Amount]

\* TradeAmount returns a.Amount, b.Amount or a new Amount SpendLimit / Price
HeapTradeAmount(h, a, b) == HeapUnlessMore(HeapAskedAmount(h, a, b), b.Amount)

\* NominalAmount returns a.Amount or a new Amount SpendLimit / Price
HeapNominalAmount(h, a, amountExp) ==
    IF a.Price = 0 THEN [h |-> h, p |-> a.Amount]
    ELSE IF a.Amount = 0
    THEN HeapQuotient(h, amountExp, a.SpendLimit, a.Price)
    ELSE IF a.SpendLimit # 0
    THEN HeapUnlessLess(HeapQuotient(h, amountExp, a.SpendLimit, a.Price),
                        a.Amount)
    ELSE [h |-> h, p |-> a.Amount]

\* a Trade whose Amount is the tradable amount itself, not a copy of it
HeapNewTradeAliased(h, a, b, bid, ask, typ, amt) ==
    [h |-> h,
     t |-> [Pair |-> a.Pair, Bid |-> Meta(bid), Ask |-> Meta(ask),
            Type |-> typ, Amount |-> amt, Price |-> b.Price]]

\* &Trade{..., Amount: amt.Dup(), Price: b.Price}
HeapNewTrade(h, a, b, bid, ask, typ, amt) ==
    LET d == HeapDup(h, amt)
    IN  [h |-> d.h,
         t |-> [Pair |-> a.Pair, Bid |-> Meta(bid), Ask |-> Meta(ask),
                Type |-> typ, Amount |-> d.p, Price |-> b.Price]]

\* if amt.IsZero() { return nil }; return the trade of amt
HeapTradeOf(amt, a, b, bid, ask, typ) ==
    IF IsZero(AmountAt(amt.h, amt.p)) THEN [h |-> amt.h, t |-> Nil]
    ELSE HeapNewTrade(amt.h, a, b, bid, ask, typ, amt.p)

\* Matches, for orders on which it does not panic: the heap and the trade
HeapMatches(h, a, b) ==
    CASE a.Type = TypeBid ->
            IF b.Type # TypeAsk THEN [h |-> h, t |-> Nil]
            ELSE IF a.Price # 0 /\ Cmp(AmountAt(h, a.Price),
                                       AmountAt(h, b.Price)) < 0
            THEN [h |-> h, t |-> Nil]
            ELSE HeapTradeOf(HeapTradeAmount(h, a, b), a, b, a, b, TypeBid)
      [] a.Type = TypeAsk ->
            IF b.Type # TypeBid THEN [h |-> h, t |-> Nil]
            ELSE IF a.Price # 0 /\ Cmp(AmountAt(h, a.Price),
                                       AmountAt(h, b.Price)) > 0
            THEN [h |-> h, t |-> Nil]
            ELSE HeapTradeOf(HeapTradeAmount(h, a, b), a, b, b, a, TypeAsk)
      [] OTHER -> [h |-> h, t |-> Nil]

\* n.Mul(x, y) on the new Amount n, which is returned
MulInto(n, x, y) == [h |-> HeapMul(n.h, n.p, x, y), p |-> n.p]

\* Spent: NewAmount(0, t.Price.exp).Mul(t.Amount, t.Price)
HeapSpent(h, t) ==
    MulInto(HeapNewAmount(h, 0, h.amts[t.Price].exp), t.Amount, t.Price)

\* o.SpendLimit = o.SpendLimit.Sub(o.SpendLimit, s) for the new Amount s
SubSpent(s, o) == HeapSub(s.h, o.SpendLimit, o.SpendLimit, s.p)

\* the end of Deduct, on the heap h2 the two subtractions left: a negative
\* SpendLimit is replaced by a new Amount of zero
HeapDeductSign(h2, o, consumed) ==
    LET negative == o.SpendLimit # 0 /\ Sign(AmountAt(h2, o.SpendLimit)) < 0
        z == IF negative THEN HeapNewAmount(h2, 0, h2.amts[o.SpendLimit].exp)
             ELSE [h |-> h2, p |-> o.SpendLimit]
    IN  [h |-> z.h, order |-> [o EXCEPT !.SpendLimit = z.p],
         fullyConsumed |-> (consumed \/ negative)]

\* the SpendLimit part of Deduct, on the heap h1 the Amount part left
HeapDeductSpent(h1, o, t) ==
    HeapDeductSign(IF o.SpendLimit # 0 THEN SubSpent(HeapSpent(h1, t), o)
                   ELSE h1,
                   o, o.Amount # 0 /\ IsZero(AmountAt(h1, o.Amount)))

\* Deduct writes o.Amount and o.SpendLimit through the order's pointers
HeapDeduct(h, o, t) ==
    HeapDeductSpent(IF o.Amount # 0
                    THEN HeapSub(h, o.Amount, o.Amount, t.Amount) ELSE h,
                    o, t)

(***************************************************************************)
(* FrameSpec: an incoming order a and a resting order b on the heap, each  *)
(* Amount, Price and SpendLimit an object of its own.  One of Matches,     *)
(* TradeAmount and NominalAmount is called; after a Matches that returned  *)
(* a trade, Deduct is called once on a and once on b, in either order.     *)
(* roots holds the orders, the trade, and the numbers a0, b0 and t0 the    *)
(* orders and the trade held when Matches returned.                        *)
(***************************************************************************)
FrameQuantities == {NewAmount(v, e) : v \in {1, 3}, e \in Exps}
FramePrices == {NewAmount(v, e) : v \in {1, 2}, e \in Exps}

FrameIncoming ==
    {NewOrder("a", Pair("BTC", "USD"), typ, amount, price, limit) :
        typ \in {TypeBid, TypeAsk},
        amount \in FrameQuantities \cup {Nil},
        price \in {NewAmount(2, e) : e \in Exps} \cup {Nil},
        limit \in FrameQuantities \cup {Nil}}

FrameResting ==
    {NewOrder("b", Pair("BTC", "USD"), typ, amount, price, limit) :
        typ \in {TypeBid, TypeAsk},
        amount \in FrameQuantities,
        price \in FramePrices,
        limit \in {NewAmount(2, 0), Nil}}

\* an Amount of the order is put on the heap, nil staying nil
HeapAmountOrNil(h, a) ==
    IF a = Nil THEN [h |-> h, p |-> 0] ELSE HeapNewAmount(h, a.value, a.exp)

\* the order with its Amount, Price and SpendLimit put on the heap
HeapOrder(h, o) ==
    LET amount == HeapAmountOrNil(h, o.Amount)
        price == HeapAmountOrNil(amount.h, o.Price)
        limit == HeapAmountOrNil(price.h, o.SpendLimit)
    IN  [h |-> limit.h,
         o |-> [o EXCEPT !.Amount = amount.p, !.Price = price.p,
                         !.SpendLimit = limit.p]]

FrameInit ==
    /\ \E a \in FrameIncoming, b \in FrameResting :
           /\ ~(a.Amount = Nil /\ a.SpendLimit = Nil)
           /\ LET ha == HeapOrder(EmptyHeap, a)
                  hb == HeapOrder(ha.h, b)
              IN  /\ heap = hb.h
                  /\ roots = [a |-> ha.o, b |-> hb.o, t |-> Nil, p |-> 0,
                              a0 |-> Nil, b0 |-> Nil, t0 |-> Nil,
                              dedA |-> FALSE, dedB |-> FALSE]
    /\ heap0 = Nil /\ hcall = NoCall
    /\ ArithIdle /\ OrderIdle /\ TimeIdle /\ ConcIdle

FrameUnchanged == UNCHANGED <<arithVars, orderVars, timeVars, concVars>>

CallHeapMatches ==
    /\ hcall = NoCall
    /\ Matches(OrderAt(heap, roots.a), OrderAt(heap, roots.b)) # Panic
    /\ \E r \in {HeapMatches(heap, roots.a, roots.b)} :
           /\ heap' = r.h
           /\ roots' = [roots EXCEPT !.t = r.t,
                                     !.a0 = OrderAt(r.h, roots.a),
                                     !.b0 = OrderAt(r.h, roots.b),
                                     !.t0 = TradeAt(r.h, r.t)]
    /\ heap0' = heap
    /\ hcall' = [call |-> "Matches"]
    /\ FrameUnchanged

CallHeapTradeAmount ==
    /\ hcall = NoCall
    /\ TradeAmount(OrderAt(heap, roots.a), OrderAt(heap, roots.b)) # Panic
    /\ \E r \in {HeapTradeAmount(heap, roots.a, roots.b)} :
           /\ heap' = r.h
           /\ roots' = [roots EXCEPT !.p = r.p]
    /\ heap0' = heap
    /\ hcall' = [call |-> "TradeAmount"]
    /\ FrameUnchanged

CallHeapNominalAmount(amountExp) ==
    /\ hcall = NoCall
    /\ NominalAmount(OrderAt(heap, roots.a), amountExp) # Panic
    /\ \E r \in {HeapNominalAmount(heap, roots.a, amountExp)} :
           /\ heap' = r.h
           /\ roots' = [roots EXCEPT !.p = r.p]
    /\ heap0' = heap
    /\ hcall' = [call |-> "NominalAmount"]
    /\ FrameUnchanged

HeapDeductA ==
    /\ roots.t # Nil /\ ~roots.dedA
    /\ \E r \in {HeapDeduct(heap, roots.a, roots.t)} :
           /\ heap' = r.h
           /\ roots' = [roots EXCEPT !.a = r.order, !.dedA = TRUE]
    /\ heap0' = heap
    /\ hcall' = [call |-> "Deduct a"]
    /\ FrameUnchanged

HeapDeductB ==
    /\ roots.t # Nil /\ ~roots.dedB
    /\ \E r \in {HeapDeduct(heap, roots.b, roots.t)} :
           /\ heap' = r.h
           /\ roots' = [roots EXCEPT !.b = r.order, !.dedB = TRUE]
    /\ heap0' = heap
    /\ hcall' = [call |-> "Deduct b"]
    /\ FrameUnchanged

FrameNext ==
    \/ CallHeapMatches
    \/ CallHeapTradeAmount
    \/ \E e \in TargetExps : CallHeapNominalAmount(e)
    \/ HeapDeductA
    \/ HeapDeductB

FrameSpec == FrameInit /\ [][FrameNext]_vars

\* the big.Int objects reached from the orders' Amount, Price and SpendLimit
OrderStorage ==
    {heap.amts[p].value :
        p \in {roots.a.Amount, roots.a.Price, roots.a.SpendLimit,
               roots.b.Amount, roots.b.Price, roots.b.SpendLimit} \ {0}}

\* C24: Matches, TradeAmount and NominalAmount leave every field of both
\* orders as it was; the Amount of the trade Matches returns is an object of
\* its own with storage of its own; Deduct on either order leaves the trade
\* as it was, and Deduct on a and on b, in either order, takes the trade's
\* Amount off each order's Amount.
MatchingIsSideEffectFree ==
    /\ hcall.call \in {"Matches", "TradeAmount", "NominalAmount"} =>
          /\ OrderAt(heap, roots.a) = OrderAt(heap0, roots.a)
          /\ OrderAt(heap, roots.b) = OrderAt(heap0, roots.b)
    /\ roots.t # Nil =>
          /\ roots.t.Amount \notin {roots.a.Amount, roots.b.Amount}
          /\ heap.amts[roots.t.Amount].value \notin OrderStorage
          /\ TradeAt(heap, roots.t) = roots.t0
          /\ (roots.dedA /\ roots.a.Amount # 0) =>
                AmountAt(heap, roots.a.Amount)
                    = Sub(roots.a0.Amount, roots.a0.Amount, roots.t0.Amount)
          /\ (roots.dedB /\ roots.b.Amount # 0) =>
                AmountAt(heap, roots.b.Amount)
                    = Sub(roots.b0.Amount, roots.b0.Amount, roots.t0.Amount)
          /\ roots.dedA => OrderAt(heap, roots.a)
                               = Deduct(roots.a0, roots.t0).order
          /\ roots.dedB => OrderAt(heap, roots.b)
                               = Deduct(roots.b0, roots.t0).order

\* C24 witness: the trade took all of a's Amount, Deduct was applied to a and
\* then to b, and b keeps a remainder
MatchingIsSideEffectFreeWitness ==
    /\ hcall.call = "Deduct b" /\ roots.dedA /\ roots.dedB
    /\ roots.a0.Amount # Nil /\ roots.t0.Amount = roots.a0.Amount
    /\ AmountAt(heap, roots.a.Amount).value = 0
    /\ AmountAt(heap, roots.b.Amount).value > 0

\* a Reverse that exchanges the pointers Amount and SpendLimit as they are
HeapReverseAliased(h, o) ==
    LET price == IF o.Price # 0
                 THEN LET r == Reciprocal(AmountAt(h, o.Price))
                      IN  HeapNewAmount(h, r.value, r.exp)
                 ELSE [h |-> h, p |-> 0]
    IN  [h |-> price.h,
         o |-> [o EXCEPT !.Pair = <<o.Pair[2], o.Pair[1]>>,
                         !.Type = OrderTypeReverse(o.Type),
                         !.Amount = o.SpendLimit,
                         !.SpendLimit = o.Amount,
                         !.Price = price.p]]

\* Reverse: *res = *o, then res.Amount, res.SpendLimit = o.SpendLimit.Dup(),
\* o.Amount.Dup(), and res.Price a new Amount, the reciprocal of o.Price
HeapReverse(h, o) ==
    LET amount == HeapDup(h, o.SpendLimit)
        limit == HeapDup(amount.h, o.Amount)
        price == IF o.Price # 0
                 THEN LET r == Reciprocal(AmountAt(limit.h, o.Price))
                      IN  HeapNewAmount(limit.h, r.value, r.exp)
                 ELSE [h |-> limit.h, p |-> 0]
    IN  [h |-> price.h,
         o |-> [o EXCEPT !.Pair = <<o.Pair[2], o.Pair[1]>>,
                         !.Type = OrderTypeReverse(o.Type),
                         !.Amount = amount.p,
                         !.SpendLimit = limit.p,
                         !.Price = price.p]]

(***************************************************************************)
(* ShareSpec: an order o on the heap is reversed into r; then o and r are  *)
(* changed in place, by Deduct of a trade and by Add on their Amount or    *)
(* SpendLimit, up to MaxMutations times.                                   *)
(***************************************************************************)
MaxMutations == 2   \* changes in place made after the Reverse

ShareInit ==
    /\ \E o \in FrameIncoming :
           /\ IF o.Price = Nil THEN TRUE ELSE HasShortReciprocal(o.Price)
           /\ LET ho == HeapOrder(EmptyHeap, o)
              IN  /\ heap = ho.h
                  /\ roots = [o |-> ho.o, r |-> Nil, n |-> 0]
    /\ heap0 = Nil /\ hcall = NoCall
    /\ ArithIdle /\ OrderIdle /\ TimeIdle /\ ConcIdle

CallHeapReverse ==
    /\ roots.r = Nil
    /\ \E res \in {HeapReverse(heap, roots.o)} :
           /\ heap' = res.h
           /\ roots' = [roots EXCEPT !.r = res.o]
    /\ heap0' = heap
    /\ hcall' = [call |-> "Reverse"]
    /\ FrameUnchanged

\* a trade of 1 at the price 2, in objects of its own
HeapSomeTrade(h) ==
    LET amount == HeapNewAmount(h, 1, 0)
        price == HeapNewAmount(amount.h, 2, 0)
    IN  [h |-> price.h, t |-> [Amount |-> amount.p, Price |-> price.p]]

\* which is "o" or "r": Deduct on that order
DeductEither(which) ==
    /\ roots.r # Nil /\ roots.n < MaxMutations
    /\ \E t \in {HeapSomeTrade(heap)} :
       \E d \in {HeapDeduct(t.h, roots[which], t.t)} :
           /\ heap' = d.h
           /\ roots' = [roots EXCEPT ![which] = d.order, !.n = @ + 1]
    /\ heap0' = heap
    /\ hcall' = [call |-> "Deduct", on |-> which]
    /\ FrameUnchanged

\* p.Add(p, NewAmount(v, e)) on the Amount or the SpendLimit of o or of r
AddEither(which, field, v, e) ==
    /\ roots.r # Nil /\ roots.n < MaxMutations
    /\ roots[which][field] # 0
    /\ LET c == HeapNewAmount(heap, v, e)
           p == roots[which][field]
       IN  heap' = HeapAdd(c.h, p, p, c.p)
    /\ roots' = [roots EXCEPT !.n = @ + 1]
    /\ heap0' = heap
    /\ hcall' = [call |-> "Add", on |-> which]
    /\ FrameUnchanged

ShareNext ==
    \/ CallHeapReverse
    \/ \E which \in {"o", "r"} : DeductEither(which)
    \/ \E which \in {"o", "r"}, field \in {"Amount", "SpendLimit"},
          e \in Exps : AddEither(which, field, 5, e)

ShareSpec == ShareInit /\ [][ShareNext]_vars

\* the Amount objects and the big.Int objects behind o's Amount and SpendLimit
QuantityStorage(h, o) ==
    {<<"Amount", p>> : p \in {o.Amount, o.SpendLimit} \ {0}}
        \cup {<<"big.Int", h.amts[p].value>> :
                  p \in {o.Amount, o.SpendLimit} \ {0}}

\* Amount and SpendLimit of the order are, as numbers, what they were
\* before the last call
QuantitiesAsBefore(o) ==
    /\ AmountAt(heap, o.Amount) = AmountAt(heap0, o.Amount)
    /\ AmountAt(heap, o.SpendLimit) = AmountAt(heap0, o.SpendLimit)

\* C25: Reverse leaves o as it was; the result's Amount and SpendLimit hold
\* the numbers of o.SpendLimit and o.Amount (nil for nil) in storage not
\* shared with o, so a Deduct or an Add on the reversed order leaves the
\* Amount and SpendLimit of o as they were, and the other way round.
ReverseSharesNoStorage ==
    /\ hcall.call = "Reverse" =>
          /\ OrderAt(heap, roots.o) = OrderAt(heap0, roots.o)
          /\ AmountAt(heap, roots.r.Amount) = AmountAt(heap0, roots.o.SpendLimit)
          /\ AmountAt(heap, roots.r.SpendLimit) = AmountAt(heap0, roots.o.Amount)
    /\ roots.r # Nil =>
          QuantityStorage(heap, roots.o) \cap QuantityStorage(heap, roots.r) = {}
    /\ (hcall.call \in {"Deduct", "Add"} /\ hcall.on = "r") =>
          QuantitiesAsBefore(roots.o)
    /\ (hcall.call \in {"Deduct", "Add"} /\ hcall.on = "o") =>
          QuantitiesAsBefore(roots.r)

\* C25 witness: an order with Amount and SpendLimit was reversed, and a
\* Deduct on the reversed order changed both quantities of the reversed order
ReverseSharesNoStorageWitness ==
    /\ hcall.call = "Deduct" /\ hcall.on = "r"
    /\ roots.o.Amount # 0 /\ roots.o.SpendLimit # 0
    /\ AmountAt(heap, roots.r.Amount) # AmountAt(heap0, roots.r.Amount)
    /\ roots.r.SpendLimit \in DOMAIN heap0.amts
    /\ AmountAt(heap, roots.r.SpendLimit) # AmountAt(heap0, roots.r.SpendLimit)

(***************************************************************************)
(* CacheSpec: goroutines call exp10(v) and exp10f(v) concurrently.  A      *)
(* goroutine's stack holds a frame per call in progress (exp10f calls      *)
(* exp10 on a miss); a frame is [fn, v, pc, res, ok].  The RWMutex admits  *)
(* readers while no writer holds it and a writer while nobody holds it.    *)
(* computed counts, per map and key, the stores of a power into the cache. *)
(***************************************************************************)
CacheKeys == 0..MaxExp

\* a *big.Int holding x
BigInt(x) == [int |-> x]

\* new(big.Float).SetInt(x)
FloatOfInt(x) == [float |-> x.int]

NewFrame(fn, v) == [fn |-> fn, v |-> v, pc |-> "rlock", res |-> Nil, ok |-> FALSE]

CacheInit ==
    /\ gor = [g \in Goroutines |-> [stack |-> <<>>, calls |-> 0, ret |-> Nil]]
    /\ exp10cache = [v \in CacheKeys |-> Nil]
    /\ exp10fcache = [v \in CacheKeys |-> Nil]
    /\ exp10lock = Unlocked
    /\ computed = [fn \in {"exp10", "exp10f"} |-> [v \in CacheKeys |-> 0]]
    /\ ArithIdle /\ OrderIdle /\ TimeIdle /\ HeapIdle

CacheUnchanged == UNCHANGED <<arithVars, orderVars, timeVars, heapVars>>

Top(g) == Head(gor[g].stack)

At(g, where) == gor[g].stack # <<>> /\ Top(g).pc = where

\* the goroutine's top frame replaced by f
WithTop(g, f) == [gor EXCEPT ![g].stack = <<f>> \o Tail(@)]

\* a goroutine calls exp10(v) or exp10f(v)
CacheCall(g, fn, v) ==
    /\ gor[g].stack = <<>> /\ gor[g].calls < MaxCallsEach
    /\ gor' = [gor EXCEPT ![g].stack = <<NewFrame(fn, v)>>,
                          ![g].calls = @ + 1, ![g].ret = Nil]
    /\ UNCHANGED <<exp10cache, exp10fcache, exp10lock, computed>>
    /\ CacheUnchanged

\* exp10lock.RLock()
CacheRLock(g) ==
    /\ At(g, "rlock") /\ ~exp10lock.writer
    /\ exp10lock' = [exp10lock EXCEPT !.readers = @ + 1]
    /\ gor' = WithTop(g, [Top(g) EXCEPT !.pc = "read"])
    /\ UNCHANGED <<exp10cache, exp10fcache, computed>>
    /\ CacheUnchanged

\* res, ok := exp10cache[v]   (exp10fcache[v] in exp10f)
CacheRead(g) ==
    /\ At(g, "read")
    /\ LET f == Top(g)
           entry == IF f.fn = "exp10" THEN exp10cache[f.v] ELSE exp10fcache[f.v]
       IN  gor' = WithTop(g, [f EXCEPT !.res = entry, !.ok = (entry # Nil),
                                       !.pc = "runlock"])
    /\ UNCHANGED <<exp10cache, exp10fcache, exp10lock, computed>>
    /\ CacheUnchanged

\* exp10lock.RUnlock(); if ok { return res }
CacheRUnlock(g) ==
    /\ At(g, "runlock")
    /\ exp10lock' = [exp10lock EXCEPT !.readers = @ - 1]
    /\ gor' = WithTop(g, [Top(g) EXCEPT
                              !.pc = IF Top(g).ok THEN "return" ELSE "compute"])
    /\ UNCHANGED <<exp10cache, exp10fcache, computed>>
    /\ CacheUnchanged

\* the miss: exp10 computes 10^v; exp10f calls exp10(v) to convert its result
CacheCompute(g) ==
    /\ At(g, "compute")
    /\ LET f == Top(g)
       IN  gor' = IF f.fn = "exp10"
                  THEN WithTop(g, [f EXCEPT !.res = BigInt(10 ^ f.v), !.pc = "lock"])
                  ELSE [gor EXCEPT ![g].stack =
                            <<NewFrame("exp10", f.v),
                              [f EXCEPT !.pc = "convert"]>> \o Tail(@)]
    /\ UNCHANGED <<exp10cache, exp10fcache, exp10lock, computed>>
    /\ CacheUnchanged

\* exp10lock.Lock()
CacheLock(g) ==
    /\ At(g, "lock")
    /\ exp10lock = Unlocked
    /\ exp10lock' = [exp10lock EXCEPT !.writer = TRUE]
    /\ gor' = WithTop(g, [Top(g) EXCEPT !.pc = "store"])
    /\ UNCHANGED <<exp10cache, exp10fcache, computed>>
    /\ CacheUnchanged

\* exp10cache[v] = res   (exp10fcache[v] in exp10f)
CacheStore(g) ==
    /\ At(g, "store")
    /\ LET f == Top(g)
       IN  /\ IF f.fn = "exp10"
              THEN /\ exp10cache' = [exp10cache EXCEPT ![f.v] = f.res]
                   /\ UNCHANGED exp10fcache
              ELSE /\ exp10fcache' = [exp10fcache EXCEPT ![f.v] = f.res]
                   /\ UNCHANGED exp10cache
           /\ computed' = [computed EXCEPT ![f.fn][f.v] = @ + 1]
           /\ gor' = WithTop(g, [f EXCEPT !.pc = "unlock"])
    /\ UNCHANGED exp10lock
    /\ CacheUnchanged

\* the deferred exp10lock.Unlock()
CacheUnlock(g) ==
    /\ At(g, "unlock")
    /\ exp10lock' = [exp10lock EXCEPT !.writer = FALSE]
    /\ gor' = WithTop(g, [Top(g) EXCEPT !.pc = "return"])
    /\ UNCHANGED <<exp10cache, exp10fcache, computed>>
    /\ CacheUnchanged

\* return res: to exp10f, which converts it, or to the goroutine
CacheReturn(g) ==
    /\ At(g, "return")
    /\ LET f == Top(g)
           callers == Tail(gor[g].stack)
       IN  gor' = IF callers = <<>>
                  THEN [gor EXCEPT ![g].stack = <<>>,
                                   ![g].ret = [fn |-> f.fn, v |-> f.v,
                                               res |-> f.res]]
                  ELSE [gor EXCEPT ![g].stack =
                            <<[Head(callers) EXCEPT !.res = FloatOfInt(f.res),
                                                    !.pc = "lock"]>>
                                \o Tail(callers)]
    /\ UNCHANGED <<exp10cache, exp10fcache, exp10lock, computed>>
    /\ CacheUnchanged

CacheNext ==
    \E g \in Goroutines :
        \/ \E fn \in {"exp10", "exp10f"}, v \in CacheKeys : CacheCall(g, fn, v)
        \/ CacheRLock(g)
        \/ CacheRead(g)
        \/ CacheRUnlock(g)
        \/ CacheCompute(g)
        \/ CacheLock(g)
        \/ CacheStore(g)
        \/ CacheUnlock(g)
        \/ CacheReturn(g)

CacheSpec == CacheInit /\ [][CacheNext]_vars

\* C26: whatever the interleaving of the callers of exp10(v) and exp10f(v),
\* 10^v is stored into each cache at most once per v, and every caller
\* receives 10^v.
PowerComputedOnce ==
    /\ \A fn \in {"exp10", "exp10f"}, v \in CacheKeys : computed[fn][v] <= 1
    /\ \A g \in Goroutines :
           gor[g].ret # Nil =>
               gor[g].ret.res = IF gor[g].ret.fn = "exp10"
                                THEN BigInt(10 ^ gor[g].ret.v)
                                ELSE FloatOfInt(BigInt(10 ^ gor[g].ret.v))

(***************************************************************************)
(* FillSpec: the matching protocol with the caller's totals.  An incoming  *)
(* order a with a positive Amount is put against resting orders b of the   *)
(* opposite side, one after the other; all Amounts have one exponent and   *)
(* all Prices have one exponent.  After every trade Deduct is applied      *)
(* once to a and once to b, in either order.  tally holds the sum of what  *)
(* the Deducts took off a.Amount (offIncoming) and off the resting orders' *)
(* Amounts (offResting), as significands at the common exponent, and the   *)
(* smallest trade Amount seen.                                             *)
(***************************************************************************)
FillIncoming(ea, ep) ==
    {NewOrder("a", Pair("BTC", "USD"), typ, amount, price, limit) :
        typ \in {TypeBid, TypeAsk},
        amount \in Qty(ea) \ {NewAmount(0, ea)},
        price \in Prices(ep) \cup {Nil},
        limit \in (QtySet \ {NewAmount(0, e) : e \in Exps}) \cup {Nil}}

FillResting(typ, ea, ep) ==
    {NewOrder("b", Pair("BTC", "USD"), typ, amount, price, Nil) :
        amount \in Qty(ea) \ {NewAmount(0, ea)},
        price \in Prices(ep)}

FillInit ==
    /\ ArithIdle /\ TimeIdle /\ HeapIdle /\ ConcIdle
    /\ \E ea \in Exps, ep \in Exps :
          /\ ordA \in FillIncoming(ea, ep)
          /\ ordB \in FillResting(OrderTypeReverse(ordA.Type), ea, ep)
    /\ trade = Nil /\ pc = "idle"
    /\ dedA = FALSE /\ dedB = FALSE /\ last = NoCall
    /\ limit0 = ordA.SpendLimit /\ notional = 0 /\ nrest = 1
    /\ tally = [offIncoming |-> 0, offResting |-> 0, trades |-> 0]

\* t := a.Matches(b)
FillMatch ==
    /\ pc = "idle"
    /\ trade' = Matches(ordA, ordB)
    /\ last' = [call |-> "Matches"]
    /\ pc' = IF trade' = Panic THEN "panic"
             ELSE IF trade' = Nil THEN "idle" ELSE "matched"
    /\ tally' = IF IsTrade(trade') THEN [tally EXCEPT !.trades = @ + 1]
                ELSE tally
    /\ dedA' = FALSE /\ dedB' = FALSE
    /\ UNCHANGED <<ordA, ordB, limit0, notional, nrest>>
    /\ UNCHANGED <<arithVars, timeVars, heapVars, concVars>>

\* a.Deduct(t)
FillDeductA ==
    /\ pc = "matched" /\ ~dedA
    /\ LET r == Deduct(ordA, trade)
       IN  /\ ordA' = r.order
           /\ last' = [call |-> "Deduct", side |-> "a", before |-> ordA,
                       ret |-> r.fullyConsumed]
           /\ tally' = [tally EXCEPT !.offIncoming =
                            @ + (ordA.Amount.value - r.order.Amount.value)]
    /\ dedA' = TRUE
    /\ pc' = IF dedB THEN "idle" ELSE "matched"
    /\ UNCHANGED <<ordB, trade, dedB, limit0, notional, nrest>>
    /\ UNCHANGED <<arithVars, timeVars, heapVars, concVars>>

\* b.Deduct(t)
FillDeductB ==
    /\ pc = "matched" /\ ~dedB
    /\ LET r == Deduct(ordB, trade)
       IN  /\ ordB' = r.order
           /\ last' = [call |-> "Deduct", side |-> "b", before |-> ordB,
                       ret |-> r.fullyConsumed]
           /\ tally' = [tally EXCEPT !.offResting =
                            @ + (ordB.Amount.value - r.order.Amount.value)]
    /\ dedB' = TRUE
    /\ pc' = IF dedA THEN "idle" ELSE "matched"
    /\ UNCHANGED <<ordA, trade, dedA, limit0, notional, nrest>>
    /\ UNCHANGED <<arithVars, timeVars, heapVars, concVars>>

\* the caller turns to the next resting order, of the same side and precision
FillNextResting ==
    /\ pc = "idle" /\ last = [call |-> "Matches"] /\ nrest < MaxResting
    /\ ordB' \in FillResting(ordB.Type, ordB.Amount.exp, ordB.Price.exp)
    /\ nrest' = nrest + 1
    /\ trade' = Nil /\ last' = NoCall
    /\ UNCHANGED <<ordA, pc, dedA, dedB, limit0, notional, tally>>
    /\ UNCHANGED <<arithVars, timeVars, heapVars, concVars>>

FillNext == FillMatch \/ FillDeductA \/ FillDeductB \/ FillNextResting

FillSpec == FillInit /\ [][FillNext]_vars

\* C28: under the protocol, from positive Amounts of one exponent and
\* positive Prices of one exponent and over any sequence of resting orders,
\* no remaining Amount is ever negative, the Amount of every trade is
\* strictly positive, and once both Deducts of a trade are done the total
\* taken off the incoming order's Amount is the total taken off the resting
\* orders' Amounts.
FillsBalance ==
    /\ pc # "panic"
    /\ ordA.Amount.value >= 0 /\ ordB.Amount.value >= 0
    /\ IsTrade(trade) => trade.Amount.value > 0
    /\ pc = "idle" => tally.offIncoming = tally.offResting
    /\ pc = "matched" =>
          tally.offIncoming + (IF dedA THEN 0 ELSE trade.Amount.value)
              = tally.offResting + (IF dedB THEN 0 ELSE trade.Amount.value)

\* C28 witness: the incoming order has traded with two resting orders, the
\* second of which keeps a remainder, and is used up
FillsBalanceWitness ==
    /\ pc = "idle" /\ nrest = 2 /\ tally.trades = 2
    /\ tally.offIncoming = 2 /\ tally.offResting = 2
    /\ ordA.Amount.value = 0 /\ ordB.Amount.value > 0

(***************************************************************************)
(* LoopSpec: one incoming order a is matched against one resting order b   *)
(* again and again, Deduct being applied once to a and once to b after     *)
(* every trade, until a.Matches(b) returns nil.  The resting order may     *)
(* carry a SpendLimit of its own.  tally records for which of the orders   *)
(* a Deduct has returned true (consumed), and which consumed order, if     *)
(* any, was part of a later trade (late).                                  *)
(***************************************************************************)
\* a small and a large quantity, for loops of one trade and of several
LoopAmounts(ea) == {NewAmount(v, ea) : v \in {1, 30}}

LoopIncoming(ea, ep) ==
    {NewOrder("a", Pair("BTC", "USD"), typ, amount, price, limit) :
        typ \in {TypeBid, TypeAsk},
        amount \in LoopAmounts(ea) \cup {Nil},
        price \in {NewAmount(1, ep), Nil},
        limit \in {NewAmount(1, 0), NewAmount(24, MaxExp), Nil}}

LoopResting(typ, ea, ep) ==
    {NewOrder("b", Pair("BTC", "USD"), typ, amount, price, limit) :
        amount \in LoopAmounts(ea),
        price \in {NewAmount(1, ep), NewAmount(2, ep)},
        limit \in {NewAmount(1, 0), Nil}}

LoopInit ==
    /\ ArithIdle /\ TimeIdle /\ HeapIdle /\ ConcIdle
    /\ \E ea \in Exps, ep \in Exps :
          /\ ordA \in {o \in LoopIncoming(ea, ep) : IsValid(o)}
          /\ ordB \in LoopResting(OrderTypeReverse(ordA.Type), ea, ep)
    /\ trade = Nil /\ pc = "idle"
    /\ dedA = FALSE /\ dedB = FALSE /\ last = NoCall
    /\ limit0 = ordA.SpendLimit /\ notional = 0 /\ nrest = 1
    /\ tally = [consumed |-> {}, late |-> {}, trades |-> 0]

\* t := a.Matches(b); nil ends the loop
LoopMatch ==
    /\ pc = "idle"
    /\ trade' = Matches(ordA, ordB)
    /\ last' = [call |-> "Matches"]
    /\ pc' = IF trade' = Panic THEN "panic"
             ELSE IF trade' = Nil THEN "done" ELSE "matched"
    /\ tally' = IF IsTrade(trade')
                THEN [tally EXCEPT !.trades = @ + 1, !.late = tally.consumed]
                ELSE tally
    /\ dedA' = FALSE /\ dedB' = FALSE
    /\ UNCHANGED <<ordA, ordB, limit0, notional, nrest>>
    /\ UNCHANGED <<arithVars, timeVars, heapVars, concVars>>

\* a.Deduct(t)
LoopDeductA ==
    /\ pc = "matched" /\ ~dedA
    /\ LET r == Deduct(ordA, trade)
       IN  /\ ordA' = r.order
           /\ last' = [call |-> "Deduct", side |-> "a", before |-> ordA,
                       ret |-> r.fullyConsumed]
           /\ tally' = IF r.fullyConsumed
                       THEN [tally EXCEPT !.consumed = @ \cup {"a"}]
                       ELSE tally
    /\ dedA' = TRUE
    /\ pc' = IF dedB THEN "idle" ELSE "matched"
    /\ UNCHANGED <<ordB, trade, dedB, limit0, notional, nrest>>
    /\ UNCHANGED <<arithVars, timeVars, heapVars, concVars>>

\* b.Deduct(t)
LoopDeductB ==
    /\ pc = "matched" /\ ~dedB
    /\ LET r == Deduct(ordB, trade)
       IN  /\ ordB' = r.order
           /\ last' = [call |-> "Deduct", side |-> "b", before |-> ordB,
                       ret |-> r.fullyConsumed]
           /\ tally' = IF r.fullyConsumed
                       THEN [tally EXCEPT !.consumed = @ \cup {"b"}]
                       ELSE tally
    /\ dedB' = TRUE
    /\ pc' = IF dedA THEN "idle" ELSE "matched"
    /\ UNCHANGED <<ordA, trade, dedA, limit0, notional, nrest>>
    /\ UNCHANGED <<arithVars, timeVars, heapVars, concVars>>

LoopNext == LoopMatch \/ LoopDeductA \/ LoopDeductB

LoopSpec == LoopInit /\ [][LoopNext]_vars

\* the caller goes on with its loop as long as there is a step to take
FairLoopSpec == LoopSpec /\ WF_vars(LoopNext)

\* C29: the loop ends, a.Matches(b) returning nil after finitely many
\* trades, and an order for which a Deduct has returned true is in no later
\* trade, be it the incoming order or the resting order (which has an
\* Amount).
MatchingTerminates ==
    /\ <>(pc = "done")
    /\ [](tally.late = {})

\* C30: Unique(t) leaves t.Type as it was, in whichever branch: only the
\* time components of t change.
UniqueKeepsType ==
    given # Nil => tid.Type = given.Type

====
